---- MODULE Spec2Model ----
(***************************************************************************)
(* A model of tg-vpn-bot: the payment reconciler and the activation path   *)
(* (payments.ts, handlers.ts), the store transitions (database.ts), the    *)
(* scheduled sweeps (cron.ts), the admin block path (admin.ts) and the     *)
(* 3X-UI session client (vpn-manager.ts).                                  *)
(*                                                                         *)
(* Every `await` of the source is a suspension point: the code up to the   *)
(* await is one action, the code after it another.  A call to the panel    *)
(* is three moments: the request is issued, the panel processes it (its    *)
(* client list changes), the call returns to the caller.                   *)
(***************************************************************************)
EXTENDS Integers, Sequences, FiniteSets, TLC

\* ------------------------------------------------------------- bounds
MaxUuid == 3          \* activations started (fresh client uuids)
MaxCookie == 3        \* logins answered with a session cookie
MaxAlerts == 3        \* rows of the table alerts

Labels == {1, 2}      \* the invoice labels handleBuy draws, one per payment
Principals == {1}     \* telegram ids
TwoPrincipals == {1, 2}   \* telegram ids, where a second user matters
TariffIds == {"week", "month"}   \* the paid tariffs handleBuy is called with

\* ------------------------------------------------------- instants and text
\* An instant is a number of minutes since day 0, 00:00 UTC.
MinutesPerDay == 1440

\* the instants the clock passes through
Clock == <<0, 600, 7 * MinutesPerDay + 600, 8 * MinutesPerDay>>

\* A timestamp text is the sequence of its fields: the date (a day number,
\* standing for the fixed-width YYYY-MM-DD), the code of the separator
\* character, the time of day (minutes, standing for the fixed-width
\* HH:MM:SS) and, in ISO-8601, the code of the suffix character.
\* Date.prototype.toISOString: "YYYY-MM-DDTHH:MM:SS.sssZ" ("T" is 84, "Z" is 90)
toISOString(t) == <<t \div MinutesPerDay, 84, t % MinutesPerDay, 90>>

\* SQLite datetime('now'): "YYYY-MM-DD HH:MM:SS" (" " is 32)
datetime(t) == <<t \div MinutesPerDay, 32, t % MinutesPerDay>>

RECURSIVE textLE(_, _)
\* SQLite `a <= b` on TEXT values: the comparison of the two texts character
\* by character (memcmp), a proper prefix being the smaller
textLE(a, b) ==
    IF a = << >> THEN TRUE
    ELSE IF b = << >> THEN FALSE
    ELSE IF Head(a) # Head(b) THEN Head(a) < Head(b)
    ELSE textLE(Tail(a), Tail(b))

\* tariffs.ts: the tariff of an id; `minutes` is 0 where the table defines none
getTariff(id) ==
    IF id = "trial" THEN [id |-> "trial", days |-> 1, minutes |-> 0]
    ELSE IF id = "week" THEN [id |-> "week", days |-> 7, minutes |-> 0]
    ELSE [id |-> "month", days |-> 30, minutes |-> 0]

\* faulty variant of expiryOf: the days are added as if they were minutes
expiryOfDaysAsMinutes(tariff, t) ==
    IF tariff.minutes # 0 THEN t + tariff.minutes
    ELSE t + tariff.days

\* activateSubscription: `expiresAt` computed from Date.now() and the tariff
expiryOf(tariff, t) ==
    IF tariff.minutes # 0 THEN t + tariff.minutes
    ELSE t + tariff.days * MinutesPerDay

\* ------------------------------------------------- store and environment
VARIABLES
    payments,   \* table payments: Seq of [telegram_id, tariff_id, status, invoice_id]
    grants,     \* table subscriptions: Seq of [telegram_id, client_uuid, tariff_id,
                \* expires_at, is_active, payment]
    remote,     \* the panel's client list: set of client uuids
    paid,       \* the gateway's ledger: invoice labels with a successful deposit
    oldUpTo,    \* payments 1..oldUpTo were created more than 24 hours ago
    users,      \* table users: telegram id -> trial_used
    now,        \* the current instant (Date.now(), SQLite 'now'), in minutes
    nextUuid,   \* the next fresh client uuid (uuidv4)
    pc,         \* where each task is suspended
    cur,        \* the row a task is working on (its local `payment` / `sub`)
    queue,      \* the rows a task's loop has still to visit (its local snapshot)
    uuid,       \* the client uuid of the panel call a task has in flight
    expiresAt,  \* activateSubscription's local `expiresAt` (an instant)
    net,        \* the panel call in flight: "none", "sent", "applied"
    invoked,    \* history: the payment ids activateSubscription was invoked with
    addOk,      \* history: client uuids whose addClient call returned
    rmOk,       \* history: client uuids whose removeClient call returned
    apiErrors   \* history of each poll tick in flight: the payments of its
                \* snapshot whose gateway query raised an error, which
                \* checkYooMoneyPayment logged ('YooMoney API error')

VARIABLES
    sessions,   \* vpn-manager.ts `sessions`: server code -> cookie, 0 when absent
    nextCookie, \* the next session cookie the panels issue
    loggedIn,   \* history: the server codes for which a login has succeeded
    call        \* the apiRequest call of each caller: its locals and its history

VARIABLES
    sched,      \* each periodic task: its tick in flight, the parity of the
                \* number of ticks started, whether its latest tick raised an error
    alive,      \* the process is running (no error has escaped a callback)
    probe,      \* healthCheckAll: the healthCheck call of each endpoint
    results,    \* healthCheckAll: its local Map `results`
    hcAll,      \* healthCheckAll: "idle", "running", "returned"
    hclock,     \* seconds since healthCheckAll was called
    returnedAt  \* the value of hclock when healthCheckAll returned

VARIABLES
    alerts,     \* table alerts: Seq of [type, code], one row per createAlert
    operator,   \* the messages delivered to the operator's chat (config.adminId)
    direct,     \* a call of healthCheck(code) from outside healthCheckAll: its
                \* argument and what it returned
    sweep       \* the health sweep's callback: its position, the rows its loop
                \* has still to visit, and the history of its current tick

VARIABLES
    servers,    \* config.servers: the endpoints read from the environment
    vless       \* the latest call of buildVlessLink: its arguments and its result

VARIABLES
    traffic,    \* the call of getClientTraffic: its position, its arguments, what
                \* apiRequest gave it and what it returned or threw
    serverTariffs,  \* tariffs.ts: the ids of the tariff table of the running build
    logged,     \* history: the records logger.error has written
    proc        \* the process: "running", or "exited" after process.exit

VARIABLES
    rateLimits, \* bot.ts `rateLimits`: user id -> time of the last command, 0 when absent
    msNow,      \* Date.now(): the position of the clock on its timeline
    lastPassed, \* history: user id -> time of the user's last update that was
                \* let through, 0 when there is none
    verdict     \* history: the latest update, when it came and whether it was dropped

xuiVars == <<sessions, nextCookie, loggedIn, call>>
limVars == <<rateLimits, msNow, lastPassed, verdict>>
botVars == <<traffic, serverTariffs, logged, proc, limVars>>
sweepVars == <<alerts, operator, direct, sweep>>
cronVars == <<sched, alive, probe, results, hcAll, hclock, returnedAt, sweepVars>>
linkVars == <<servers, vless>>

storeVars == <<payments, grants, remote, paid, oldUpTo, users, now, nextUuid>>
taskVars == <<pc, cur, queue, uuid, expiresAt, net>>
histVars == <<invoked, addOk, rmOk, apiErrors>>
payVars == <<storeVars, taskVars, histVars>>

\* the ticks of the payment poll that may be in flight at once: setInterval
\* starts a tick every 15 s whether or not the one before has ended
PollTicks == {"poll", "poll2"}

\* the handleBuy callbacks that may be in flight at once
BuyTasks == {"buy", "buy2"}

Tasks == PollTicks \cup {"check", "expiry", "block"} \cup BuyTasks
ActTasks == PollTicks \cup {"check"} \cup BuyTasks
RmTasks == {"expiry", "block"}

PayIds == 1..Len(payments)
GrantIds == 1..Len(grants)

\* ----------------------------------------------------------- database.ts

RECURSIVE SeqOfSet(_)
\* the rows of a SELECT in rowid order
SeqOfSet(S) ==
    IF S = {} THEN << >>
    ELSE LET m == CHOOSE x \in S : \A y \in S : x <= y
         IN <<m>> \o SeqOfSet(S \ {m})

getPendingPayments == SeqOfSet({p \in PayIds : payments[p].status = "pending"})

\* the label of payment p is p itself; 0 stands for no such row
getPaymentByInvoiceId(label) ==
    IF \E p \in PayIds : payments[p].invoice_id = label
    THEN CHOOSE p \in PayIds : payments[p].invoice_id = label
    ELSE 0

createPayment(u, tariffId) ==
    Append(payments, [telegram_id |-> u, tariff_id |-> tariffId, status |-> "pending",
                      invoice_id |-> Len(payments) + 1])

completePayment(id) ==
    [p \in PayIds |-> IF p = id THEN [payments[p] EXCEPT !.status = "completed"]
                      ELSE payments[p]]

\* faulty variant of expireOldPayments: the age condition is missing
expireOldPaymentsOfAnyAge ==
    [p \in PayIds |->
        IF payments[p].status = "pending"
        THEN [payments[p] EXCEPT !.status = "expired"]
        ELSE payments[p]]

\* expireOldPayments returns `result.changes`: the number of rows the
\* UPDATE's WHERE clause matched
changes == Cardinality({p \in PayIds : payments[p].status = "pending" /\ p <= oldUpTo})

expireOldPayments ==
    [p \in PayIds |->
        IF payments[p].status = "pending" /\ p <= oldUpTo
        THEN [payments[p] EXCEPT !.status = "expired"]
        ELSE payments[p]]

\* faulty variant of createSubscription: a deactivated row of the user is
\* taken over and made active again instead of a new row being inserted
createSubscriptionReusingRow(u, clientUuid, tariffId, expires, pay) ==
    LET row == [telegram_id |-> u, client_uuid |-> clientUuid,
                tariff_id |-> tariffId, expires_at |-> expires,
                is_active |-> 1, payment |-> pay]
        old == {g \in GrantIds : grants[g].telegram_id = u /\ grants[g].is_active = 0}
    IN IF old = {} THEN Append(grants, row)
       ELSE [grants EXCEPT ![CHOOSE g \in old : TRUE] = row]

createSubscription(u, clientUuid, tariffId, expires, pay) ==
    Append(grants, [telegram_id |-> u, client_uuid |-> clientUuid,
                    tariff_id |-> tariffId, expires_at |-> expires,
                    is_active |-> 1, payment |-> pay])

\* WHERE s.is_active = 1 AND s.expires_at <= datetime('now')
getExpiredSubscriptions ==
    SeqOfSet({g \in GrantIds :
                grants[g].is_active = 1 /\ textLE(grants[g].expires_at, datetime(now))})

\* WHERE s.telegram_id = ? AND s.is_active = 1
getActiveSubscriptions(u) ==
    {g \in GrantIds : grants[g].telegram_id = u /\ grants[g].is_active = 1}

deactivateSubscription(id) ==
    [g \in GrantIds |-> IF g = id THEN [grants[g] EXCEPT !.is_active = 0]
                        ELSE grants[g]]

markTrialUsed(u) == [users EXCEPT ![u] = 1]

activeOf(u) == {g \in GrantIds : grants[g].telegram_id = u /\ grants[g].is_active = 1}

\* faulty variant of deactivateAllUserSubscriptions: the UPDATE lacks
\* `telegram_id = ?`
deactivateAllUserSubscriptionsOfAnyUser(u) ==
    [g \in GrantIds |-> [grants[g] EXCEPT !.is_active = 0]]

deactivateAllUserSubscriptions(u) ==
    [g \in GrantIds |-> IF g \in activeOf(u) THEN [grants[g] EXCEPT !.is_active = 0]
                        ELSE grants[g]]

\* ------------------------------------------------------------------ Init
PayInit ==
    /\ payments = << >>
    /\ grants = << >>
    /\ remote = {}
    /\ paid = {}
    /\ oldUpTo = 0
    /\ users = [u \in TwoPrincipals |-> 0]
    /\ now = Clock[1]
    /\ nextUuid = 1
    /\ pc = [t \in Tasks |-> "idle"]
    /\ cur = [t \in Tasks |-> 0]
    /\ queue = [t \in Tasks |-> << >>]
    /\ uuid = [t \in Tasks |-> 0]
    /\ expiresAt = [t \in Tasks |-> 0]
    /\ net = [t \in Tasks |-> "none"]
    /\ invoked = {}
    /\ addOk = {}
    /\ rmOk = {}
    /\ apiErrors = [k \in PollTicks |-> {}]

\* ------------------------------------------------------------ environment

\* handlers.ts handleBuy, paid tariff: the payment row is created pending
handleBuy(u, tariffId) ==
    /\ UNCHANGED <<xuiVars, cronVars, linkVars, botVars>>
    /\ Len(payments) + 1 \in Labels
    /\ payments' = createPayment(u, tariffId)
    /\ UNCHANGED <<grants, remote, paid, oldUpTo, users, now, nextUuid, taskVars, histVars>>

\* the user pays the quickpay link of a payment: the gateway records a
\* successful deposit under its label
Deposit(l) ==
    /\ UNCHANGED <<xuiVars, cronVars, linkVars, botVars>>
    /\ getPaymentByInvoiceId(l) # 0 /\ l \notin paid
    /\ paid' = paid \cup {l}
    /\ UNCHANGED <<payments, grants, remote, oldUpTo, users, now, nextUuid, taskVars, histVars>>

\* time passes: the oldest payment not yet 24 hours old becomes so
Age ==
    /\ UNCHANGED <<xuiVars, cronVars, linkVars, botVars>>
    /\ oldUpTo < Len(payments)
    /\ oldUpTo' = oldUpTo + 1
    /\ UNCHANGED <<payments, grants, remote, paid, users, now, nextUuid, taskVars, histVars>>

\* time passes: the clock reaches its next instant
Tick ==
    /\ UNCHANGED <<xuiVars, cronVars, linkVars, botVars>>
    /\ \E i \in 1..(Len(Clock) - 1) : now = Clock[i] /\ now' = Clock[i + 1]
    /\ UNCHANGED <<payments, grants, remote, paid, oldUpTo, users, nextUuid, taskVars, histVars>>

\* ------------------------------------------------- payments.ts activation

\* the ids of the tariff table as the source has it
TariffTable == {"trial", "week", "month"}

\* getTariff(server.code, payment.tariff_id) is not undefined
tariffFound(id) == id \in serverTariffs

\* faulty variant of afterThrow: an error or a negative answer ends the tick
afterThrowEndsTick(t) == "idle"

\* the error path of a task whose activation threw: the poll's catch goes on
\* with the batch, the check handler ends
afterThrow(t) == IF t \in PollTicks THEN "loop" ELSE "idle"

\* activateSubscription up to `await addClient`: server and tariff are found,
\* a fresh uuid is drawn, the addClient request is issued
activateSubscription(t, p) ==
    /\ tariffFound(payments[p].tariff_id)
    /\ nextUuid <= MaxUuid
    /\ nextUuid' = nextUuid + 1
    /\ uuid' = [uuid EXCEPT ![t] = nextUuid]
    /\ expiresAt' = [expiresAt EXCEPT ![t] = expiryOf(getTariff(payments[p].tariff_id), now)]
    /\ net' = [net EXCEPT ![t] = "sent"]
    /\ pc' = [pc EXCEPT ![t] = "add"]
    /\ invoked' = invoked \cup {[payment |-> p, client_uuid |-> nextUuid]}

\* handlers.ts handleBuy, trial tariff, as callback t: the user's trial_used
\* is read and is not 1, a payment row is created and activateSubscription
\* called with it, up to its `await addClient`
handleBuyTrial(t, u) ==
    /\ UNCHANGED <<xuiVars, cronVars, linkVars, botVars>>
    /\ t \in BuyTasks /\ pc[t] = "idle"
    /\ users[u] # 1
    /\ Len(payments) + 1 \in Labels
    /\ payments' = createPayment(u, "trial")
    /\ cur' = [cur EXCEPT ![t] = Len(payments) + 1]
    /\ tariffFound("trial")
    /\ nextUuid <= MaxUuid
    /\ nextUuid' = nextUuid + 1
    /\ uuid' = [uuid EXCEPT ![t] = nextUuid]
    /\ expiresAt' = [expiresAt EXCEPT ![t] = expiryOf(getTariff("trial"), now)]
    /\ net' = [net EXCEPT ![t] = "sent"]
    /\ pc' = [pc EXCEPT ![t] = "add"]
    /\ invoked' = invoked \cup {[payment |-> Len(payments) + 1, client_uuid |-> nextUuid]}
    /\ UNCHANGED <<grants, remote, paid, oldUpTo, users, now, queue, addOk, rmOk, apiErrors>>

\* the panel processes an addClient request (uuids are fresh: never a duplicate)
PanelAddClient(t) ==
    /\ UNCHANGED <<xuiVars, cronVars, linkVars, botVars>>
    /\ t \in ActTasks /\ pc[t] = "add" /\ net[t] = "sent"
    /\ remote' = remote \cup {uuid[t]}
    /\ net' = [net EXCEPT ![t] = "applied"]
    /\ UNCHANGED <<payments, grants, paid, oldUpTo, users, now, nextUuid, pc, cur, queue, uuid, expiresAt, histVars>>

\* faulty variant of afterAddClient: a throw of addClient is swallowed
afterAddClientSwallowed(t, ok) ==
    /\ grants' = createSubscription(payments[cur[t]].telegram_id, uuid[t],
                                     payments[cur[t]].tariff_id,
                                     toISOString(expiresAt[t]), cur[t])
    /\ payments' = completePayment(cur[t])
    /\ users' = IF payments[cur[t]].tariff_id = "trial"
                THEN markTrialUsed(payments[cur[t]].telegram_id) ELSE users
    /\ pc' = [pc EXCEPT ![t] = "msg"]

\* faulty variant of afterAddClient: the trial is marked used before the
\* outcome of addClient is known
afterAddClientMarksTrialFirst(t, ok) ==
    /\ users' = IF payments[cur[t]].tariff_id = "trial"
                THEN markTrialUsed(payments[cur[t]].telegram_id) ELSE users
    /\ IF ok
       THEN /\ grants' = createSubscription(payments[cur[t]].telegram_id, uuid[t],
                                             payments[cur[t]].tariff_id,
                                             toISOString(expiresAt[t]), cur[t])
            /\ payments' = completePayment(cur[t])
            /\ pc' = [pc EXCEPT ![t] = "msg"]
       ELSE /\ UNCHANGED <<grants, payments>>
            /\ pc' = [pc EXCEPT ![t] = afterThrow(t)]

\* activateSubscription after `await addClient`: createSubscription,
\* completePayment and, for the trial, markTrialUsed when the call
\* returned, nothing when it threw
afterAddClient(t, ok) ==
    IF ok
    THEN /\ grants' = createSubscription(payments[cur[t]].telegram_id, uuid[t],
                                          payments[cur[t]].tariff_id,
                                          toISOString(expiresAt[t]), cur[t])
         /\ payments' = completePayment(cur[t])
         /\ users' = IF payments[cur[t]].tariff_id = "trial"
                     THEN markTrialUsed(payments[cur[t]].telegram_id) ELSE users
         /\ pc' = [pc EXCEPT ![t] = "msg"]
    ELSE /\ UNCHANGED <<grants, payments, users>>
         /\ pc' = [pc EXCEPT ![t] = afterThrow(t)]

\* a task's locals are dropped when its activation ends
dropLocals(t, ended) ==
    /\ cur' = IF ended THEN [cur EXCEPT ![t] = 0] ELSE cur
    /\ uuid' = IF ended THEN [uuid EXCEPT ![t] = 0] ELSE uuid
    /\ expiresAt' = IF ended THEN [expiresAt EXCEPT ![t] = 0] ELSE expiresAt

\* the addClient call ends: it returns only when the panel has added the
\* client; it throws on a rejection, on exhausted retries or on a lost answer
AddClientEnds(t) ==
    /\ UNCHANGED <<xuiVars, cronVars, linkVars, botVars>>
    /\ t \in ActTasks /\ pc[t] = "add"
    /\ \E ok \in BOOLEAN :
        /\ ok => net[t] = "applied"
        /\ afterAddClient(t, ok)
        /\ addOk' = IF ok THEN addOk \cup {uuid[t]} ELSE addOk
        /\ dropLocals(t, ~ok)
    /\ net' = [net EXCEPT ![t] = "none"]
    /\ UNCHANGED <<remote, paid, oldUpTo, now, nextUuid, queue, invoked, rmOk, apiErrors>>

\* activateSubscription after `await sendMessage` and the QR code: it ends
\* (a throw of sendMessage ends it the same way, with the store as it is)
Notified(t) ==
    /\ UNCHANGED <<xuiVars, cronVars, linkVars, botVars>>
    /\ t \in ActTasks /\ pc[t] = "msg"
    /\ pc' = [pc EXCEPT ![t] = afterThrow(t)]
    /\ dropLocals(t, TRUE)
    /\ UNCHANGED <<storeVars, queue, net, histVars>>

\* activateSubscription's `await bot.telegram.sendMessage` throws (the user
\* has blocked the bot, Telegram is unreachable): the statement stands in no
\* try, so activateSubscription ends with the error; the poll's catch logs
\* it, in a handler it reaches bot.catch
SendMessageThrows(t) ==
    /\ t \in ActTasks /\ pc[t] = "msg"
    /\ logged' = logged \cup
          {[msg |-> IF t \in PollTicks THEN "Polling check failed" ELSE "Bot error",
            payment |-> cur[t]]}
    /\ pc' = [pc EXCEPT ![t] = afterThrow(t)]
    /\ dropLocals(t, TRUE)
    /\ UNCHANGED <<storeVars, queue, net, histVars>>
    /\ UNCHANGED <<xuiVars, cronVars, linkVars, limVars, traffic, serverTariffs, proc>>

\* the addClient call has returned and createSubscription throws (the INSERT
\* fails: the database is locked by another process, the disk is full):
\* activateSubscription ends with the error, nothing is written
CreateSubscriptionThrows(t) ==
    /\ UNCHANGED <<xuiVars, cronVars, linkVars, botVars>>
    /\ t \in ActTasks /\ pc[t] = "add" /\ net[t] = "applied"
    /\ addOk' = addOk \cup {uuid[t]}
    /\ pc' = [pc EXCEPT ![t] = afterThrow(t)]
    /\ dropLocals(t, TRUE)
    /\ net' = [net EXCEPT ![t] = "none"]
    /\ UNCHANGED <<storeVars, queue, invoked, rmOk, apiErrors>>

\* the addClient call has returned, createSubscription has inserted the row
\* and completePayment throws (the UPDATE fails): activateSubscription ends
\* with the error, the payment row is as it was
CompletePaymentThrows(t) ==
    /\ UNCHANGED <<xuiVars, cronVars, linkVars, botVars>>
    /\ t \in ActTasks /\ pc[t] = "add" /\ net[t] = "applied"
    /\ grants' = createSubscription(payments[cur[t]].telegram_id, uuid[t],
                                     payments[cur[t]].tariff_id,
                                     toISOString(expiresAt[t]), cur[t])
    /\ addOk' = addOk \cup {uuid[t]}
    /\ pc' = [pc EXCEPT ![t] = afterThrow(t)]
    /\ dropLocals(t, TRUE)
    /\ net' = [net EXCEPT ![t] = "none"]
    /\ UNCHANGED <<payments, remote, paid, oldUpTo, users, now, nextUuid, queue, invoked, rmOk, apiErrors>>

\* activateSubscription is called for a confirmed payment whose tariff the
\* table of the running build lacks: it logs 'Tariff not found' and returns
TariffNotFound(t) ==
    /\ t \in ActTasks /\ pc[t] = "gw"
    /\ payments[cur[t]].invoice_id \in paid
    /\ ~tariffFound(payments[cur[t]].tariff_id)
    /\ logged' = logged \cup {[msg |-> "Tariff not found", payment |-> cur[t]]}
    /\ pc' = [pc EXCEPT ![t] = afterThrow(t)]
    /\ dropLocals(t, TRUE)
    /\ UNCHANGED <<storeVars, queue, net, histVars>>
    /\ UNCHANGED <<xuiVars, cronVars, linkVars, limVars, traffic, serverTariffs, proc>>

\* the bot is stopped and started again as a build with another tariff
\* table; the store file stays as it is
Redeploy(ids) ==
    /\ \A t \in Tasks : pc[t] = "idle"
    /\ ids # serverTariffs
    /\ serverTariffs' = ids
    /\ UNCHANGED <<payVars, xuiVars, cronVars, linkVars, limVars, traffic, logged, proc>>

\* ---------------------------------------------- payments.ts reconciler

\* the interval timer fires and tick k of the poll begins: the pending
\* payments are read once
pollPendingPayments(k) ==
    /\ UNCHANGED <<xuiVars, cronVars, linkVars, botVars>>
    /\ pc[k] = "idle"
    /\ getPendingPayments # << >>
    /\ queue' = [queue EXCEPT ![k] = getPendingPayments]
    /\ pc' = [pc EXCEPT ![k] = "loop"]
    /\ UNCHANGED <<storeVars, cur, uuid, expiresAt, net, histVars>>

\* the head of the for loop: the next payment of the snapshot, its gateway
\* query issued; the tick ends when the snapshot is used up
PollLoop(k) ==
    /\ UNCHANGED <<xuiVars, cronVars, linkVars, botVars>>
    /\ pc[k] = "loop"
    /\ IF queue[k] = << >>
       THEN /\ pc' = [pc EXCEPT ![k] = "idle"]
            /\ cur' = [cur EXCEPT ![k] = 0]
            /\ apiErrors' = [apiErrors EXCEPT ![k] = {}]
            /\ UNCHANGED queue
       ELSE /\ queue' = [queue EXCEPT ![k] = Tail(@)]
            /\ cur' = [cur EXCEPT ![k] = Head(queue[k])]
            /\ pc' = [pc EXCEPT ![k] =
                        IF payments[Head(queue[k])].invoice_id = 0 THEN "loop" ELSE "gw"]
            /\ UNCHANGED apiErrors
    /\ UNCHANGED <<storeVars, uuid, expiresAt, net, invoked, addOk, rmOk>>

\* checkYooMoneyPayment: TRUE when the gateway lists a successful deposit
\* for the label, FALSE when it lists none or the query failed
checkYooMoneyPayment(label, failed) == ~failed /\ label \in paid

\* the gateway query of a task returns, or raises an error that
\* checkYooMoneyPayment catches and logs; a paid payment is activated
GatewayReply(t) ==
    /\ UNCHANGED <<xuiVars, cronVars, linkVars, botVars>>
    /\ t \in ActTasks /\ pc[t] = "gw"
    /\ \E failed \in BOOLEAN :
        IF checkYooMoneyPayment(payments[cur[t]].invoice_id, failed)
        THEN /\ activateSubscription(t, cur[t])
             /\ UNCHANGED <<payments, grants, remote, paid, oldUpTo, users, now, cur, queue, addOk, rmOk, apiErrors>>
        ELSE /\ pc' = [pc EXCEPT ![t] = afterThrow(t)]
             /\ dropLocals(t, TRUE)
             /\ apiErrors' = IF failed /\ t \in PollTicks
                             THEN [apiErrors EXCEPT ![t] = @ \cup {cur[t]}]
                             ELSE apiErrors
             /\ UNCHANGED <<storeVars, queue, net, invoked, addOk, rmOk>>

\* ------------------------------------------ handlers.ts handleCheckPayment

\* the user presses "I have paid" for a label: the payment is read and must
\* be pending (otherwise the handler answers and ends, changing nothing)
handleCheckPayment(label) ==
    /\ UNCHANGED <<xuiVars, cronVars, linkVars, botVars>>
    /\ pc["check"] = "idle"
    /\ getPaymentByInvoiceId(label) # 0
    /\ payments[getPaymentByInvoiceId(label)].status = "pending"
    /\ cur' = [cur EXCEPT !["check"] = getPaymentByInvoiceId(label)]
    /\ pc' = [pc EXCEPT !["check"] = "ans"]
    /\ UNCHANGED <<storeVars, queue, uuid, expiresAt, net, histVars>>

\* `await ctx.answerCbQuery` returns and the gateway query is issued, or it
\* throws and the handler ends
CheckAnswered ==
    /\ UNCHANGED <<xuiVars, cronVars, linkVars, botVars>>
    /\ pc["check"] = "ans"
    /\ \E ok \in BOOLEAN :
        /\ pc' = [pc EXCEPT !["check"] = IF ok THEN "gw" ELSE "idle"]
        /\ dropLocals("check", ~ok)
    /\ UNCHANGED <<storeVars, queue, net, histVars>>

\* ------------------------------------------------- cron.ts stale payments

\* the hourly task
StaleSweep ==
    /\ UNCHANGED <<xuiVars, cronVars, linkVars, botVars>>
    /\ expireOldPayments # payments
    /\ payments' = expireOldPayments
    /\ UNCHANGED <<grants, remote, paid, oldUpTo, users, now, nextUuid, taskVars, histVars>>

\* ------------------------------------------- cron.ts expiry, admin.ts block

\* faulty variant of afterRemoveClient: the expiry sweep leaves the row active
afterRemoveClientKeepsActive(t) ==
    /\ UNCHANGED grants
    /\ pc' = [pc EXCEPT ![t] = IF t = "expiry" THEN "msg" ELSE "loop"]

\* faulty variant of afterRemoveClient: the expiry sweep deactivates the row
\* only when the panel has removed the client
afterRemoveClientOnlyIfRemoved(t) ==
    IF t = "expiry"
    THEN /\ grants' = IF net[t] = "applied" THEN deactivateSubscription(cur[t]) ELSE grants
         /\ pc' = [pc EXCEPT ![t] = "msg"]
    ELSE /\ UNCHANGED grants
         /\ pc' = [pc EXCEPT ![t] = "loop"]

\* the error path and the normal path of a removal are the same statement:
\* the expiry sweep deactivates the row, the block path goes to the next row
afterRemoveClient(t) ==
    IF t = "expiry"
    THEN /\ grants' = deactivateSubscription(cur[t])
         /\ pc' = [pc EXCEPT ![t] = "msg"]
    ELSE /\ UNCHANGED grants
         /\ pc' = [pc EXCEPT ![t] = "loop"]

\* one tick of the every-minute task: the expired subscriptions are read once
ExpirySweep ==
    /\ UNCHANGED <<xuiVars, cronVars, linkVars, botVars>>
    /\ pc["expiry"] = "idle"
    /\ queue' = [queue EXCEPT !["expiry"] = getExpiredSubscriptions]
    /\ pc' = [pc EXCEPT !["expiry"] = "loop"]
    /\ UNCHANGED <<storeVars, cur, uuid, expiresAt, net, histVars>>

\* /block <telegram_id>: the user's active subscriptions are deactivated in
\* the store, the rows that were active are kept for the removal loop
handleBlock(u) ==
    /\ UNCHANGED <<xuiVars, cronVars, linkVars, botVars>>
    /\ pc["block"] = "idle"
    /\ queue' = [queue EXCEPT !["block"] = SeqOfSet(activeOf(u))]
    /\ grants' = deactivateAllUserSubscriptions(u)
    /\ pc' = [pc EXCEPT !["block"] = "loop"]
    /\ UNCHANGED <<payments, remote, paid, oldUpTo, users, now, nextUuid, cur, uuid, expiresAt, net, histVars>>

\* the head of either removal loop: removeClient is issued for the next row
RemoveLoop(t) ==
    /\ UNCHANGED <<xuiVars, cronVars, linkVars, botVars>>
    /\ t \in RmTasks /\ pc[t] = "loop"
    /\ IF queue[t] = << >>
       THEN /\ pc' = [pc EXCEPT ![t] = "idle"]
            /\ cur' = [cur EXCEPT ![t] = 0]
            /\ UNCHANGED <<queue, uuid, net>>
       ELSE /\ queue' = [queue EXCEPT ![t] = Tail(@)]
            /\ cur' = [cur EXCEPT ![t] = Head(queue[t])]
            /\ uuid' = [uuid EXCEPT ![t] = grants[Head(queue[t])].client_uuid]
            /\ net' = [net EXCEPT ![t] = "sent"]
            /\ pc' = [pc EXCEPT ![t] = "rm"]
    /\ UNCHANGED <<storeVars, expiresAt, histVars>>

\* the panel processes a delClient request for a client it has
PanelDelClient(t) ==
    /\ UNCHANGED <<xuiVars, cronVars, linkVars, botVars>>
    /\ t \in RmTasks /\ pc[t] = "rm" /\ net[t] = "sent"
    /\ uuid[t] \in remote
    /\ remote' = remote \ {uuid[t]}
    /\ net' = [net EXCEPT ![t] = "applied"]
    /\ UNCHANGED <<payments, grants, paid, oldUpTo, users, now, nextUuid, pc, cur, queue, uuid, expiresAt, histVars>>

\* the removeClient call ends: it returns only when the panel has removed the
\* client; it throws otherwise, and the throw is caught and logged
RemoveClientEnds(t) ==
    /\ UNCHANGED <<xuiVars, cronVars, linkVars, botVars>>
    /\ t \in RmTasks /\ pc[t] = "rm"
    /\ \E ok \in BOOLEAN :
        /\ ok => net[t] = "applied"
        /\ rmOk' = IF ok THEN rmOk \cup {uuid[t]} ELSE rmOk
    /\ afterRemoveClient(t)
    /\ net' = [net EXCEPT ![t] = "none"]
    /\ uuid' = [uuid EXCEPT ![t] = 0]
    /\ UNCHANGED <<payments, remote, paid, oldUpTo, users, now, nextUuid, cur, queue, expiresAt, invoked, addOk, apiErrors>>

\* the expiry sweep's removeClient call has ended and deactivateSubscription
\* throws (the UPDATE fails): the statement stands outside the two inner
\* handlers, so the error ends the loop in the callback's outer catch and
\* the rows the loop had still to visit are dropped
DeactivateSubscriptionThrows ==
    /\ UNCHANGED <<xuiVars, cronVars, linkVars, botVars>>
    /\ pc["expiry"] = "rm"
    /\ \E ok \in BOOLEAN :
        /\ ok => net["expiry"] = "applied"
        /\ rmOk' = IF ok THEN rmOk \cup {uuid["expiry"]} ELSE rmOk
    /\ pc' = [pc EXCEPT !["expiry"] = "idle"]
    /\ queue' = [queue EXCEPT !["expiry"] = << >>]
    /\ cur' = [cur EXCEPT !["expiry"] = 0]
    /\ uuid' = [uuid EXCEPT !["expiry"] = 0]
    /\ net' = [net EXCEPT !["expiry"] = "none"]
    /\ UNCHANGED <<storeVars, expiresAt, invoked, addOk, apiErrors>>

\* the expiry notice was sent, or sending it threw: the next row
ExpiryNotified ==
    /\ UNCHANGED <<xuiVars, cronVars, linkVars, botVars>>
    /\ pc["expiry"] = "msg"
    /\ pc' = [pc EXCEPT !["expiry"] = "loop"]
    /\ UNCHANGED <<storeVars, cur, queue, uuid, expiresAt, net, histVars>>

\* ------------------------------------------- vpn-manager.ts session client

Servers == {"ru", "nl"}                 \* config.servers
Callers == {"a", "b"}                   \* concurrent callers of apiRequest
Metered == {"m"}                        \* a caller whose calls of fetch are counted
Statuses == {200, 401, 500}
\* a response: its status, and `flag`: the Set-Cookie header is present (of a
\* login), the envelope says success:true (of an API request)
Responses == [status : Statuses, flag : BOOLEAN]
NoResponse == [stage |-> "none", status |-> 0, flag |-> FALSE]

DefaultRetries == 3

\* pc: "idle", "fetch" (a fetch is in flight), "sleep" (backoff), "done";
\* stage: the fetchWithRetry the call is in: "login1" (ensureSession's login),
\* "req1", "login2" (the login after a 401), "req2"; attempt, retries,
\* lastError, cookie: the locals of the source; result: what the call returned
\* or threw. History of the call: logins and requests count the calls of
\* login() and doRequest(); initial: ensureSession logged in; first401: the
\* first request was answered 401; warm: a login for srv had succeeded when
\* the call began; last: the last response received; slept: the delays slept
\* and errs: the errors caught in the current fetchWithRetry; fetches: the
\* calls of fetch the call has made so far, counted for a metered caller.
idleCall ==
    [pc |-> "idle", srv |-> "ru", stage |-> "none", attempt |-> 0, retries |-> 0,
     lastError |-> 0, cookie |-> 0, result |-> [kind |-> "none", error |-> 0],
     logins |-> 0, requests |-> 0, first401 |-> FALSE, warm |-> FALSE,
     initial |-> FALSE, metered |-> FALSE, fetches |-> 0,
     last |-> NoResponse, slept |-> << >>, errs |-> << >>]

XuiInit ==
    /\ sessions = [s \in Servers |-> 0]
    /\ nextCookie = 1
    /\ loggedIn = {}
    /\ call = [c \in Callers \cup Metered |-> idleCall]

\* Response.ok
ok(status) == status >= 200 /\ status <= 299

\* faulty variant of sleepsAfter: the loop runs while `attempt <= retries`
sleepsAfterOneMore(attempt, retries) == attempt < retries

\* fetchWithRetry: the delay before the next attempt, and whether there is one
backoffDelay(attempt) == (2 ^ attempt) * 1000
sleepsAfter(attempt, retries) == attempt < retries - 1

\* fetchWithRetry is entered: `lastError = null`, `attempt = 0`
startFetch(k, stg, retries) ==
    [k EXCEPT !.pc = "fetch", !.stage = stg, !.attempt = 0, !.retries = retries,
              !.lastError = 0, !.slept = << >>, !.errs = << >>,
              !.fetches = IF k.metered THEN @ + 1 ELSE @]

\* login(serverCode) is called: its fetchWithRetry is entered
login(k, stg) == startFetch([k EXCEPT !.logins = @ + 1], stg, DefaultRetries)

\* doRequest(cookie) is called: its fetchWithRetry is entered
doRequest(k, stg, ck) ==
    startFetch([k EXCEPT !.requests = @ + 1, !.cookie = ck], stg, DefaultRetries)

\* the call throws / returns
throw(k, kind, e) == [k EXCEPT !.pc = "done", !.result = [kind |-> kind, error |-> e]]
return(k) == [k EXCEPT !.pc = "done", !.result = [kind |-> "ok", error |-> 0]]

\* faulty variant of cached: ensureSession logs in on every call
cachedNever(s) == FALSE

\* ensureSession: whether a cookie is cached for the server
cached(s) == sessions[s] # 0

\* apiRequest up to its first fetch: ensureSession, then login's fetch or
\* doRequest's: the locals of the call
ensureSession(s) ==
    LET k == [idleCall EXCEPT !.srv = s, !.warm = s \in loggedIn]
    IN IF cached(s) THEN doRequest(k, "req1", sessions[s])
       ELSE login([k EXCEPT !.initial = TRUE], "login1")

\* apiRequest is called by c for server s
apiRequest(c, s) ==
    /\ call[c].pc = "idle"
    /\ call' = [call EXCEPT ![c] =
                 IF c \in Metered
                 THEN [ensureSession(s) EXCEPT !.metered = TRUE, !.fetches = 1]
                 ELSE ensureSession(s)]
    /\ UNCHANGED <<sessions, nextCookie, loggedIn>>
    /\ UNCHANGED <<payVars, cronVars, linkVars, botVars>>

\* the Error object fetch rejects with in attempt number `attempt`; 0 is null
errorOf(attempt) == attempt + 1

\* fetchWithRetry: fetch rejects (a timeout, a reset). Before the last
\* attempt the loop sleeps; after the last attempt it ends and lastError is
\* thrown, which neither login nor apiRequest catches
FetchFails(c) ==
    /\ call[c].pc = "fetch"
    /\ LET e == errorOf(call[c].attempt)
           k == [call[c] EXCEPT !.lastError = e, !.errs = Append(@, e)]
       IN call' = [call EXCEPT ![c] =
                     IF sleepsAfter(k.attempt, k.retries)
                     THEN [k EXCEPT !.pc = "sleep",
                                    !.slept = Append(@, backoffDelay(k.attempt))]
                     ELSE throw(k, "transport", k.lastError)]
    /\ UNCHANGED <<sessions, nextCookie, loggedIn>>
    /\ UNCHANGED <<payVars, cronVars, linkVars, botVars>>

\* fetchWithRetry: the sleep ends, `attempt++`, the next fetch is issued
SleepEnds(c) ==
    /\ call[c].pc = "sleep"
    /\ call' = [call EXCEPT ![c] = [@ EXCEPT !.pc = "fetch", !.attempt = @ + 1,
                                             !.fetches = IF @ > 0 THEN @ + 1 ELSE @]]
    /\ UNCHANGED <<sessions, nextCookie, loggedIn>>
    /\ UNCHANGED <<payVars, cronVars, linkVars, botVars>>

\* faulty variant of loginThrows: the `!res.ok` check is missing
loginThrowsWithoutCookieOnly(r) == ~r.flag

\* login: the response is refused when it is not ok or carries no cookie
loginThrows(r) == ~ok(r.status) \/ ~r.flag

\* faulty variant of reloginOn: every 401 leads to a fresh login and a retry
reloginOnEvery401(stg, status) == status = 401

\* faulty variant of reloginOn: every failed first request is retried after a login
reloginOnAnyError(stg, status) == stg = "req1" /\ ~ok(status)

\* apiRequest: the response to a request leads to a fresh login
reloginOn(stg, status) == stg = "req1" /\ status = 401

\* apiRequest after the response r to doRequest, when there is no re-login
finish(k, r) ==
    IF ~ok(r.status) THEN throw(k, "api", 0)
    ELSE IF ~r.flag THEN throw(k, "failed", 0)
    ELSE return(k)

\* faulty variant of storeCookie: a cookie already cached is kept
storeCookieIfAbsent(s, ck) ==
    IF sessions[s] # 0 THEN sessions ELSE [sessions EXCEPT ![s] = ck]

\* login: `sessions.set(serverCode, cookie)`
storeCookie(s, ck) == [sessions EXCEPT ![s] = ck]

\* a fetch of login resolves with r: the cookie is stored and the request
\* issued, or login throws
LoginResponds(c, r) ==
    /\ call[c].pc = "fetch" /\ call[c].stage \in {"login1", "login2"}
    /\ LET k == [call[c] EXCEPT !.last = [stage |-> call[c].stage,
                                          status |-> r.status, flag |-> r.flag]]
       IN IF loginThrows(r)
          THEN /\ call' = [call EXCEPT ![c] =
                             throw(k, IF ok(r.status) THEN "nocookie" ELSE "login", 0)]
               /\ UNCHANGED <<sessions, nextCookie, loggedIn>>
          ELSE /\ nextCookie <= MaxCookie
               /\ sessions' = storeCookie(k.srv, nextCookie)
               /\ nextCookie' = nextCookie + 1
               /\ loggedIn' = loggedIn \cup {k.srv}
               /\ call' = [call EXCEPT ![c] =
                             doRequest(k, IF k.stage = "login1" THEN "req1" ELSE "req2",
                                       nextCookie)]
    /\ UNCHANGED <<payVars, cronVars, linkVars, botVars>>

\* a fetch of doRequest resolves with r: re-login on 401, else the call ends
RequestResponds(c, r) ==
    /\ call[c].pc = "fetch" /\ call[c].stage \in {"req1", "req2"}
    /\ LET k == [call[c] EXCEPT !.last = [stage |-> call[c].stage,
                                          status |-> r.status, flag |-> r.flag]]
       IN call' = [call EXCEPT ![c] =
                     IF reloginOn(k.stage, r.status)
                     THEN login([k EXCEPT !.first401 = TRUE], "login2")
                     ELSE finish(k, r)]
    /\ UNCHANGED <<sessions, nextCookie, loggedIn>>
    /\ UNCHANGED <<payVars, cronVars, linkVars, botVars>>

\* the caller has its result or its error; it may call again
CallEnds(c) ==
    /\ call[c].pc = "done"
    /\ call' = [call EXCEPT ![c] = idleCall]
    /\ UNCHANGED <<sessions, nextCookie, loggedIn>>
    /\ UNCHANGED <<payVars, cronVars, linkVars, botVars>>

\* ------------------------------------- cron.ts, payments.ts: the timers

\* the periodic tasks: three cron.schedule callbacks and the setInterval poll
Periodic == {"expiry", "health", "stale", "poll"}
\* the callbacks that await; the stale-payment callback has no await
AsyncTasks == {"expiry", "health", "poll"}

\* where an error raised inside a tick is caught: "row" is a try/catch
\* around one statement of the loop body (removeClient and sendMessage in the
\* expiry sweep, sendMessage in the health sweep, the whole body in the
\* poll), "tick" the try/catch around the whole callback (for the poll, the
\* .catch on the promise of pollPendingPayments)
Handlers ==
    (AsyncTasks \X {"row"}) \cup (Periodic \X {"tick"})

\* faulty variant of caught: the poll's promise has no .catch
caughtUnlessPollRejects(t, where) == <<t, where>> \in Handlers \ {<<"poll", "tick">>}

\* an error raised in task t at `where` meets a handler; an error that meets
\* none is an uncaught exception or an unhandled rejection, which ends the
\* process
caught(t, where) == <<t, where>> \in Handlers

idleTask == [pc |-> "idle", n |-> 0, failed |-> FALSE]

\* a timer fires and the callback of task t is entered. The stale-payment
\* callback runs to its end in the same step: it returns, or
\* expireOldPayments throws and the error is logged
TimerFires(t) ==
    /\ alive /\ sched[t].pc = "idle"
    /\ IF t \in AsyncTasks
       THEN /\ sched' = [sched EXCEPT ![t] = [pc |-> "run", n |-> 1 - @.n, failed |-> FALSE]]
            /\ UNCHANGED alive
       ELSE \E err \in BOOLEAN :
               /\ sched' = [sched EXCEPT ![t] = [pc |-> "idle", n |-> 1 - @.n, failed |-> err]]
               /\ alive' = (err => caught(t, "tick"))
    /\ UNCHANGED <<probe, results, hcAll, hclock, returnedAt>>
    /\ UNCHANGED <<payVars, xuiVars, linkVars, botVars, sweepVars>>

\* a statement of the loop body throws: the error is caught and logged and
\* the tick goes on with the batch
RowThrows(t) ==
    /\ alive /\ t \in AsyncTasks /\ sched[t].pc = "run"
    /\ sched' = [sched EXCEPT ![t].failed = TRUE]
    /\ alive' = caught(t, "row")
    /\ UNCHANGED <<probe, results, hcAll, hclock, returnedAt>>
    /\ UNCHANGED <<payVars, xuiVars, linkVars, botVars, sweepVars>>

\* a statement outside the loop body's handlers throws (a store operation):
\* the tick ends in the outer handler
TickThrows(t) ==
    /\ alive /\ t \in AsyncTasks /\ sched[t].pc = "run"
    /\ sched' = [sched EXCEPT ![t].pc = "idle", ![t].failed = TRUE]
    /\ alive' = caught(t, "tick")
    /\ UNCHANGED <<probe, results, hcAll, hclock, returnedAt>>
    /\ UNCHANGED <<payVars, xuiVars, linkVars, botVars, sweepVars>>

\* the callback returns
TickReturns(t) ==
    /\ alive /\ t \in AsyncTasks /\ sched[t].pc = "run"
    /\ sched' = [sched EXCEPT ![t].pc = "idle"]
    /\ UNCHANGED <<alive, probe, results, hcAll, hclock, returnedAt>>
    /\ UNCHANGED <<payVars, xuiVars, linkVars, botVars, sweepVars>>

\* ------------------------------------ vpn-manager.ts: healthCheckAll

\* config.servers of the health check: three endpoints
HealthServers == Servers \cup {"de"}

ProbeTimeout == 15      \* AbortSignal.timeout(15_000), in seconds
HealthRetries == 2      \* healthCheck: fetchWithRetry(url, options, 2)
ResponseTime == 1       \* seconds a reachable endpoint takes to answer or refuse

\* what becomes of one fetch: a response with a status after ResponseTime,
\* a rejection (status 0) after ResponseTime, or the abort at the timeout
AttemptOutcomes ==
    {[status |-> st, after |-> ResponseTime] : st \in {200, 302, 500, 0}}
        \cup {[status |-> 0, after |-> ProbeTimeout]}

\* pc: "idle" (not called), "fetch", "sleep", "done"; due: the value of
\* hclock at which the pending fetch or sleep ends; result: what healthCheck
\* returned. History: spent, the seconds of the call's own fetches and
\* sleeps; doneAt, the value of hclock when it returned.
idleProbe ==
    [pc |-> "idle", attempt |-> 0, due |-> 0, outcome |-> [status |-> 0, after |-> 0],
     result |-> "none", spent |-> 0, doneAt |-> 0]

\* the health sweep's callback between ticks; pc: "idle", "loop", "notify"
\* (sendMessage is awaited), "end". History of a tick: before, the number of
\* alert rows when its loop began; alerted and attempted, per endpoint, the
\* createAlert calls and the sendMessage calls to the operator
idleSweep ==
    [pc |-> "idle", queue |-> << >>, cur |-> "none", before |-> 0,
     alerted |-> [e \in HealthServers |-> 0], attempted |-> [e \in HealthServers |-> 0]]

CronInit ==
    /\ sched = [t \in Periodic |-> idleTask]
    /\ alive = TRUE
    /\ probe = [e \in HealthServers |-> idleProbe]
    /\ results = [e \in HealthServers |-> "none"]
    /\ hcAll = "idle"
    /\ hclock = 0
    /\ returnedAt = 0
    /\ alerts = << >>
    /\ operator = {}
    /\ direct = [state |-> "none"]
    /\ sweep = idleSweep

called(pr) == {e \in HealthServers : pr[e].pc # "idle"}
returned(pr) == {e \in HealthServers : pr[e].pc = "done"}

\* faulty variant of toStart: the endpoints are probed one after the other
toStartInTurn(pr) ==
    IF called(pr) = returned(pr) /\ called(pr) # HealthServers
    THEN {CHOOSE e \in HealthServers \ called(pr) : TRUE}
    ELSE {}

\* healthCheckAll: the healthCheck calls to make now, given the calls pr made
\* so far: config.servers.map(async ...) calls healthCheck for every endpoint
\* before the first await of Promise.all
toStart(pr) == HealthServers \ called(pr)

\* healthCheck is called for the endpoints in es: each issues its first fetch
startProbes(pr, es, os) ==
    [e \in HealthServers |->
        IF e \in es
        THEN [idleProbe EXCEPT !.pc = "fetch", !.outcome = os[e], !.due = hclock + os[e].after]
        ELSE pr[e]]

\* healthCheckAll is called (while the table alerts has room for the rows of
\* one more tick)
healthCheckAll ==
    /\ hcAll = "idle" /\ hclock = 0
    /\ Len(alerts) + Cardinality(HealthServers) <= MaxAlerts
    /\ hcAll' = "running"
    /\ hclock' = 0
    /\ results' = [e \in HealthServers |-> "none"]
    /\ \E os \in [HealthServers -> AttemptOutcomes] :
          LET none == [e \in HealthServers |-> idleProbe]
          IN probe' = startProbes(none, toStart(none), os)
    /\ UNCHANGED <<sched, alive, returnedAt>>
    /\ UNCHANGED <<payVars, xuiVars, linkVars, botVars, sweepVars>>

\* faulty variant of isUp: a redirect counts as down
isUpOnlyOk(status) == ok(status)

\* healthCheck: `res.ok || res.status === 302`
isUp(status) == ok(status) \/ status = 302

\* the server codes healthCheck may be called with that config.servers lacks
UnknownCodes == {"xx"}

\* healthCheck(code) for a code that is not configured: getServerConfig
\* throws inside the try, and the catch returns false
healthCheckUnknown(code) ==
    /\ code \notin HealthServers
    /\ direct.state = "none"
    /\ direct' = [state |-> "returned", code |-> code, result |-> "false"]
    /\ UNCHANGED <<sched, alive, probe, results, hcAll, hclock, returnedAt, alerts, operator, sweep>>
    /\ UNCHANGED <<payVars, xuiVars, linkVars, botVars>>

\* healthCheck returns b for e, and the callback stores it: results.set
probeReturns(pr, e, b) ==
    [pr EXCEPT ![e].pc = "done", ![e].result = b, ![e].doneAt = hclock,
               ![e].spent = @ + pr[e].outcome.after]

\* the fetch of e's healthCheck ends: with a response, healthCheck returns
\* `res.ok || res.status === 302`; with a rejection, fetchWithRetry sleeps
\* before its second attempt, and after that attempt throws, which
\* healthCheck catches and answers with false
ProbeFetchEnds(e) ==
    /\ hcAll = "running" /\ probe[e].pc = "fetch" /\ probe[e].due = hclock
    /\ LET k == probe[e]
           b == IF isUp(k.outcome.status) THEN "true" ELSE "false"
       IN IF k.outcome.status # 0 \/ ~sleepsAfter(k.attempt, HealthRetries)
          THEN /\ results' = [results EXCEPT ![e] = b]
               /\ \E os \in [HealthServers -> AttemptOutcomes] :
                     LET pr == probeReturns(probe, e, b)
                     IN probe' = startProbes(pr, toStart(pr), os)
          ELSE /\ probe' = [probe EXCEPT ![e].pc = "sleep",
                                         ![e].spent = @ + k.outcome.after,
                                         ![e].due = hclock + backoffDelay(k.attempt) \div 1000]
               /\ UNCHANGED results
    /\ UNCHANGED <<sched, alive, hcAll, hclock, returnedAt>>
    /\ UNCHANGED <<payVars, xuiVars, linkVars, botVars, sweepVars>>

\* the backoff sleep of e's fetchWithRetry ends: `attempt++`, the next fetch
ProbeSleepEnds(e) ==
    /\ hcAll = "running" /\ probe[e].pc = "sleep" /\ probe[e].due = hclock
    /\ \E o \in AttemptOutcomes :
          probe' = [probe EXCEPT ![e].pc = "fetch", ![e].attempt = @ + 1,
                                ![e].spent = @ + backoffDelay(probe[e].attempt) \div 1000,
                                ![e].outcome = o, ![e].due = hclock + o.after]
    /\ UNCHANGED <<sched, alive, results, hcAll, hclock, returnedAt>>
    /\ UNCHANGED <<payVars, xuiVars, linkVars, botVars, sweepVars>>

pendingProbes == {e \in HealthServers : probe[e].pc \in {"fetch", "sleep"}}

\* time passes to the next moment at which a fetch or a sleep ends
HealthTimePasses ==
    /\ hcAll = "running" /\ pendingProbes # {}
    /\ \A e \in pendingProbes : probe[e].due > hclock
    /\ \E e \in pendingProbes :
          /\ \A f \in pendingProbes : probe[e].due <= probe[f].due
          /\ hclock' = probe[e].due
    /\ UNCHANGED <<sched, alive, probe, results, hcAll, returnedAt>>
    /\ UNCHANGED <<payVars, xuiVars, linkVars, botVars, sweepVars>>

\* Promise.all resolves when every callback has returned: healthCheckAll
\* returns `results`
HealthCheckAllReturns ==
    /\ hcAll = "running" /\ returned(probe) = HealthServers
    /\ hcAll' = "returned"
    /\ returnedAt' = hclock
    /\ UNCHANGED <<sched, alive, probe, results, hclock>>
    /\ UNCHANGED <<payVars, xuiVars, linkVars, botVars, sweepVars>>

\* the caller has the map; healthCheckAll may be called again
HealthCheckAllDone ==
    /\ hcAll = "returned"
    /\ hcAll' = "idle"
    /\ probe' = [e \in HealthServers |-> idleProbe]
    /\ results' = [e \in HealthServers |-> "none"]
    /\ hclock' = 0 /\ returnedAt' = 0
    /\ UNCHANGED <<sched, alive>>
    /\ UNCHANGED <<payVars, xuiVars, linkVars, botVars, sweepVars>>

\* -------------------------------------------- cron.ts: the health sweep

\* database.ts getServers: the rows of the table servers, which seedServers
\* fills from config.servers
getServers == <<"de", "nl", "ru">>

\* database.ts createAlert
createAlert(type, code) == Append(alerts, [type |-> type, code |-> code])

\* faulty variant of afterNotify: a sendMessage that throws ends the tick
afterNotifyRethrows(delivered) == IF delivered THEN "loop" ELSE "end"

\* the sendMessage to the operator has its own try/catch, which is empty:
\* the loop goes on either way
afterNotify(delivered) == "loop"

\* `await healthCheckAll()` has returned in the callback: getServers is read
HealthSweepReads ==
    /\ hcAll = "returned" /\ sweep.pc = "idle"
    /\ sweep' = [idleSweep EXCEPT !.pc = "loop", !.queue = getServers,
                                  !.before = Len(alerts)]
    /\ UNCHANGED <<sched, alive, probe, results, hcAll, hclock, returnedAt>>
    /\ UNCHANGED <<alerts, operator, direct>>
    /\ UNCHANGED <<payVars, xuiVars, linkVars, botVars>>

\* the head of the for loop: for an endpoint whose result is not true the
\* alert row is created and the message to the operator is issued
HealthSweepLoop ==
    /\ sweep.pc = "loop"
    /\ IF sweep.queue = << >>
       THEN /\ sweep' = [sweep EXCEPT !.pc = "end", !.cur = "none"]
            /\ UNCHANGED alerts
       ELSE LET srv == Head(sweep.queue)
            IN IF results[srv] # "true"
               THEN /\ alerts' = createAlert("server_down", srv)
                    /\ sweep' = [sweep EXCEPT !.pc = "notify", !.cur = srv,
                                              !.queue = Tail(@),
                                              !.alerted[srv] = @ + 1,
                                              !.attempted[srv] = @ + 1]
               ELSE /\ sweep' = [sweep EXCEPT !.queue = Tail(@)]
                    /\ UNCHANGED alerts
    /\ UNCHANGED <<sched, alive, probe, results, hcAll, hclock, returnedAt>>
    /\ UNCHANGED <<operator, direct>>
    /\ UNCHANGED <<payVars, xuiVars, linkVars, botVars>>

\* the sendMessage to the operator ends: the message is delivered, or the
\* call throws (the operator is unreachable)
HealthNotifyEnds ==
    /\ sweep.pc = "notify"
    /\ \E delivered \in BOOLEAN :
        /\ operator' = IF delivered
                       THEN operator \cup {[type |-> "server_down", code |-> sweep.cur]}
                       ELSE operator
        /\ sweep' = [sweep EXCEPT !.pc = afterNotify(delivered)]
    /\ UNCHANGED <<sched, alive, probe, results, hcAll, hclock, returnedAt>>
    /\ UNCHANGED <<alerts, direct>>
    /\ UNCHANGED <<payVars, xuiVars, linkVars, botVars>>

\* the callback returns; the next tick may begin
HealthSweepReturns ==
    /\ sweep.pc = "end"
    /\ sweep' = idleSweep
    /\ hcAll' = "idle"
    /\ probe' = [e \in HealthServers |-> idleProbe]
    /\ results' = [e \in HealthServers |-> "none"]
    /\ hclock' = 0 /\ returnedAt' = 0
    /\ UNCHANGED <<sched, alive>>
    /\ UNCHANGED <<alerts, operator, direct>>
    /\ UNCHANGED <<payVars, xuiVars, linkVars, botVars>>

\* ------------------------------------ vpn-manager.ts: buildVlessLink

\* A text is the sequence of its characters.

\* the characters encodeURIComponent escapes, with the two hex digits of
\* their codes ("~", "!", "*", "'", "(" and ")" are left as they are)
ComponentCodes ==
    [c \in {" ", "#", "%", "&", "+", "/", ":", "=", "?", "@"} |->
        CASE c = " " -> <<"2", "0">>
          [] c = "#" -> <<"2", "3">>
          [] c = "%" -> <<"2", "5">>
          [] c = "&" -> <<"2", "6">>
          [] c = "+" -> <<"2", "B">>
          [] c = "/" -> <<"2", "F">>
          [] c = ":" -> <<"3", "A">>
          [] c = "=" -> <<"3", "D">>
          [] c = "?" -> <<"3", "F">>
          [] c = "@" -> <<"4", "0">>]

\* the application/x-www-form-urlencoded serializer of URLSearchParams
\* escapes "~" as well
FormCodes == [c \in DOMAIN ComponentCodes \cup {"~"} |->
                IF c = "~" THEN <<"7", "E">> ELSE ComponentCodes[c]]

RECURSIVE encodeWith(_, _)
\* every character of s that has a code is replaced by "%" and its code
encodeWith(codes, s) ==
    IF s = << >> THEN << >>
    ELSE (IF Head(s) \in DOMAIN codes THEN <<"%">> \o codes[Head(s)] ELSE <<Head(s)>>)
            \o encodeWith(codes, Tail(s))

encodeURIComponent(s) == encodeWith(ComponentCodes, s)

\* URLSearchParams.toString for one name or value: a space becomes "+"
formEncode(s) ==
    LET spaced == [i \in 1..Len(s) |-> IF s[i] = " " THEN "sp" ELSE s[i]]
        enc == encodeWith(FormCodes, spaced)
    IN [i \in 1..Len(enc) |-> IF enc[i] = "sp" THEN "+" ELSE enc[i]]

RECURSIVE percentDecode(_)
\* "%" followed by the two hex digits of a character stands for it
percentDecode(s) ==
    IF s = << >> THEN << >>
    ELSE IF /\ Head(s) = "%" /\ Len(s) >= 3
            /\ \E c \in DOMAIN FormCodes : FormCodes[c] = <<s[2], s[3]>>
         THEN <<CHOOSE c \in DOMAIN FormCodes : FormCodes[c] = <<s[2], s[3]>> >>
                 \o percentDecode(SubSeq(s, 4, Len(s)))
         ELSE <<Head(s)>> \o percentDecode(Tail(s))

decodeURIComponent(s) == percentDecode(s)

\* the URLSearchParams parser for one name or value: "+" is a space
formDecode(s) == percentDecode([i \in 1..Len(s) |-> IF s[i] = "+" THEN " " ELSE s[i]])

Digits == <<"0", "1", "2", "3", "4", "5", "6", "7", "8", "9">>

RECURSIVE numberToString(_)
\* `${n}` of a non-negative integer
numberToString(n) ==
    IF n < 10 THEN <<Digits[n + 1]>>
    ELSE numberToString(n \div 10) \o <<Digits[(n % 10) + 1]>>

isDigits(s) == s # << >> /\ \A i \in 1..Len(s) : \E d \in 1..10 : Digits[d] = s[i]

RECURSIVE stringToNumber(_)
stringToNumber(s) ==
    IF s = << >> THEN 0
    ELSE 10 * stringToNumber(SubSeq(s, 1, Len(s) - 1))
            + (CHOOSE d \in 1..10 : Digits[d] = s[Len(s)]) - 1

\* the first and the last position of character c in s, 0 when it has none
indexOf(s, c) ==
    IF \E i \in 1..Len(s) : s[i] = c
    THEN CHOOSE i \in 1..Len(s) : s[i] = c /\ \A j \in 1..(i - 1) : s[j] # c
    ELSE 0
lastIndexOf(s, c) ==
    IF \E i \in 1..Len(s) : s[i] = c
    THEN CHOOSE i \in 1..Len(s) : s[i] = c /\ \A j \in (i + 1)..Len(s) : s[j] # c
    ELSE 0

\* s up to its first c, and s after it (empty when s has no c)
before(s, c) == IF indexOf(s, c) = 0 THEN s ELSE SubSeq(s, 1, indexOf(s, c) - 1)
after(s, c) == IF indexOf(s, c) = 0 THEN << >> ELSE SubSeq(s, indexOf(s, c) + 1, Len(s))

RECURSIVE split(_, _)
\* the parts of s between the occurrences of c
split(s, c) ==
    IF indexOf(s, c) = 0 THEN <<s>>
    ELSE <<before(s, c)>> \o split(after(s, c), c)

VlessScheme == <<"v", "l", "e", "s", "s", ":", "/", "/">>

NoURL == [valid |-> FALSE, username |-> << >>, hostname |-> << >>, port |-> 0,
          search |-> << >>, hash |-> << >>]

\* URI parsing (RFC 3986, section 3; the URL parser of the WHATWG standard
\* for a scheme that is not special): the fragment starts at the first "#",
\* the query at the first "?" before it, the authority ends at the first
\* "/"; in the authority the user information ends at the last "@", and the
\* host, unless it is an IP literal in brackets, ends at the first ":",
\* after which only the digits of the port may stand
parseURL(u) ==
    IF Len(u) < Len(VlessScheme) \/ SubSeq(u, 1, Len(VlessScheme)) # VlessScheme
    THEN NoURL
    ELSE
    LET rest == SubSeq(u, Len(VlessScheme) + 1, Len(u))
        hash == after(rest, "#")
        upToHash == before(rest, "#")
        search == after(upToHash, "?")
        authority == before(before(upToHash, "?"), "/")
        at == lastIndexOf(authority, "@")
        username == IF at = 0 THEN << >> ELSE SubSeq(authority, 1, at - 1)
        hostport == SubSeq(authority, at + 1, Len(authority))
        bracketed == hostport # << >> /\ Head(hostport) = "["
        hostname == IF bracketed
                    THEN SubSeq(hostport, 1, indexOf(hostport, "]"))
                    ELSE before(hostport, ":")
        tail == SubSeq(hostport, Len(hostname) + 1, Len(hostport))
    IN IF \/ hostname = << >>
          \/ bracketed /\ indexOf(hostport, "]") = 0
          \/ tail # << >> /\ (Head(tail) # ":" \/ ~isDigits(Tail(tail)))
       THEN NoURL
       ELSE [valid |-> TRUE, username |-> username, hostname |-> hostname,
             port |-> IF tail = << >> THEN 0 ELSE stringToNumber(Tail(tail)),
             search |-> search, hash |-> hash]

\* URLSearchParams of a query string, and its `get`: the value of the first
\* pair with the name, << >> when there is none
searchParams(search) ==
    LET pairs == split(search, "&")
    IN [i \in 1..Len(pairs) |->
          [name |-> formDecode(before(pairs[i], "=")),
           value |-> formDecode(after(pairs[i], "="))]]
get(params, name) ==
    IF \E i \in 1..Len(params) : params[i].name = name
    THEN params[CHOOSE i \in 1..Len(params) :
                    params[i].name = name /\ \A j \in 1..(i - 1) : params[j].name # name].value
    ELSE << >>

\* new URLSearchParams({...}).toString(): the pairs in the order of the
\* object's keys, joined by "&"
RECURSIVE toQueryString(_)
toQueryString(pairs) ==
    IF pairs = << >> THEN << >>
    ELSE formEncode(Head(pairs)[1]) \o <<"=">> \o formEncode(Head(pairs)[2])
            \o (IF Len(pairs) = 1 THEN << >> ELSE <<"&">> \o toQueryString(Tail(pairs)))

\* the values the environment gives the endpoint (config.ts parseServers):
\* the address is a dotted name or an IPv4 address, or an IPv6 address
ServerIps == {<<"1", "0", ".", "2">>, <<"f", "d", ":", ":", "1">>}
ServerPorts == {443, 8443}
PublicKeys == {<<"K", "-", "_", "w">>, <<"K", "+", "/", "=">>}
ShortIds == {<<"6", "b">>, <<"0", "1">>}
Snis == {<<"s", ".", "c">>}
ClientUuids == {<<"u", "-", "1">>, <<"u", "-", "2">>}
LinkLabels == {<<"V", "P", "N", "-", "N", "L", "-", "1">>, <<"m", "y", " ", "#", "1">>,
               <<"a", "&", "b", "~">>}

LinkInit ==
    /\ servers = << >>
    /\ vless = [state |-> "none"]

\* config.ts parseServers: config.servers is read from the environment when
\* the module is loaded
parseServers ==
    /\ servers = << >>
    /\ \E code \in Servers, ip \in ServerIps, port \in ServerPorts,
          pbk \in PublicKeys, sid \in ShortIds, sni \in Snis :
          servers' = <<[code |-> code, serverIp |-> ip, serverPort |-> port,
                        publicKey |-> pbk, shortId |-> sid, sni |-> sni]>>
    /\ UNCHANGED vless
    /\ UNCHANGED <<payVars, xuiVars, cronVars, botVars>>

\* config.servers.find(s => s.code === serverCode) finds an endpoint
configured(serverCode) == \E i \in 1..Len(servers) : servers[i].code = serverCode

\* getServerConfig, for a code that is configured (for any other it throws)
getServerConfig(serverCode) ==
    servers[CHOOSE i \in 1..Len(servers) : servers[i].code = serverCode]

\* the value buildVlessLink returns for an endpoint srv
vlessLinkOf(srv, clientUuid, label) ==
    LET params == toQueryString(<< <<<<"t", "y", "p", "e">>, <<"t", "c", "p">> >>,
                                   <<<<"s", "e", "c">>, <<"r", "e", "a", "l">> >>,
                                   <<<<"p", "b", "k">>, srv.publicKey>>,
                                   <<<<"f", "p">>, <<"c", "h", "r">> >>,
                                   <<<<"s", "n", "i">>, srv.sni>>,
                                   <<<<"s", "i", "d">>, srv.shortId>>,
                                   <<<<"f", "l", "o", "w">>, <<"x", "t", "l", "s">> >> >>)
    IN VlessScheme \o clientUuid \o <<"@">> \o srv.serverIp \o <<":">>
          \o numberToString(srv.serverPort) \o <<"?">> \o params
          \o <<"#">> \o encodeURIComponent(label)

\* buildVlessLink(serverCode, uuid, label) is called: it returns the link,
\* or getServerConfig throws
buildVlessLink(serverCode, clientUuid, label) ==
    /\ servers # << >>
    /\ vless' = IF ~configured(serverCode)
                THEN [state |-> "threw"]
                ELSE [state |-> "returned", srv |-> getServerConfig(serverCode),
                      uuid |-> clientUuid, label |-> label,
                      link |-> vlessLinkOf(getServerConfig(serverCode), clientUuid, label)]
    /\ UNCHANGED servers
    /\ UNCHANGED <<payVars, xuiVars, cronVars, botVars>>

\* ------------------------------------ vpn-manager.ts: getClientTraffic

Emails == {"tg_1_ru", "tg_1_nl"}        \* the `email` argument: a client's name
Undefined == 0 - 1                      \* a field the reply does not carry
Counts == {Undefined, 0, 1, 2}          \* `up`, `down` of the panel's record
\* json.obj of getClientTraffics: null (the panel has no record of the
\* client) or the record
Null == [null |-> TRUE]
Objs == {Null} \cup [null : {FALSE}, up : Counts, down : Counts]

idleTraffic == [pc |-> "idle", email |-> "", obj |-> Null,
                result |-> [kind |-> "none"]]

BotInit ==
    /\ traffic = idleTraffic
    /\ serverTariffs = TariffTable
    /\ logged = {}
    /\ proc = "running"
    /\ rateLimits = [u \in TwoPrincipals |-> 0]
    /\ msNow = 1
    /\ lastPassed = [u \in TwoPrincipals |-> 0]
    /\ verdict = [user |-> 0, at |-> 0, dropped |-> FALSE]

\* `x || 0`
orZero(x) == IF x = Undefined \/ x = 0 THEN 0 ELSE x

\* what getClientTraffic returns for the value apiRequest resolved with
usageOf(obj) ==
    IF obj.null THEN [kind |-> "usage", up |-> 0, down |-> 0, total |-> 0]
    ELSE [kind |-> "usage", up |-> orZero(obj.up), down |-> orZero(obj.down),
          total |-> orZero(obj.up) + orZero(obj.down)]

\* getClientTraffic(serverCode, email) is called by the caller "a": it
\* awaits apiRequest
getClientTraffic(s, email) ==
    /\ traffic.pc = "idle" /\ call["a"].pc = "idle"
    /\ call' = [call EXCEPT !["a"] = ensureSession(s)]
    /\ traffic' = [idleTraffic EXCEPT !.pc = "await", !.email = email]
    /\ UNCHANGED <<sessions, nextCookie, loggedIn>>
    /\ UNCHANGED <<payVars, cronVars, linkVars, limVars, serverTariffs, logged, proc>>

\* apiRequest has ended: with json.obj, from which the usage is built, or
\* with an error, which getClientTraffic does not catch
GetClientTrafficEnds(obj) ==
    /\ traffic.pc = "await" /\ call["a"].pc = "done"
    /\ traffic' = [traffic EXCEPT
                     !.pc = "done",
                     !.obj = IF call["a"].result.kind = "ok" THEN obj ELSE Null,
                     !.result = IF call["a"].result.kind = "ok" THEN usageOf(obj)
                                ELSE [kind |-> "error",
                                      error |-> call["a"].result.kind]]
    /\ call' = [call EXCEPT !["a"] = idleCall]
    /\ UNCHANGED <<sessions, nextCookie, loggedIn>>
    /\ UNCHANGED <<payVars, cronVars, linkVars, limVars, serverTariffs, logged, proc>>

\* the caller of getClientTraffic has its usage or its error
GetClientTrafficDone ==
    /\ traffic.pc = "done"
    /\ traffic' = idleTraffic
    /\ UNCHANGED <<payVars, xuiVars, cronVars, linkVars, limVars, serverTariffs, logged, proc>>

\* ---------------------------------------------------- bot.ts: rate limiting

RATE_LIMIT_MS == 1000
CleanupAge == 60000

\* the values of Date.now() at which something happens, in milliseconds
\* since the process was loaded at an instant after the epoch: steps of
\* half a second, of a second and of about a minute
Timeline == <<1000, 1500, 2000, 2500, 61000, 61500, 62000, 62500, 121500>>
dateNow == Timeline[msNow]

\* faulty variant of limited: a second, not less than a second
limitedInclusive(last, t) == last # 0 /\ t - last <= RATE_LIMIT_MS

\* isRateLimited: `last && now - last < RATE_LIMIT_MS`
limited(last, t) == last # 0 /\ t - last < RATE_LIMIT_MS

\* the middleware runs for an update of user u: isRateLimited(u) drops it,
\* or records the time and lets it through to next()
isRateLimited(u) ==
    /\ verdict' = [user |-> u, at |-> dateNow,
                   dropped |-> limited(rateLimits[u], dateNow)]
    /\ IF limited(rateLimits[u], dateNow)
       THEN UNCHANGED <<rateLimits, lastPassed>>
       ELSE /\ rateLimits' = [rateLimits EXCEPT ![u] = dateNow]
            /\ lastPassed' = [lastPassed EXCEPT ![u] = dateNow]
    /\ UNCHANGED msNow
    /\ UNCHANGED <<payVars, xuiVars, cronVars, linkVars, traffic, serverTariffs, logged, proc>>

\* faulty variant of olderThan: the cutoff is Date.now() itself
olderThanNow(ts, t) == ts # 0 /\ ts < t

\* the cleanup deletes an entry: `ts < cutoff`
olderThan(ts, t) == ts # 0 /\ ts < t - CleanupAge

\* the cleanup timer fires: the entries older than a minute are deleted
cleanup ==
    /\ rateLimits' = [u \in TwoPrincipals |->
                        IF olderThan(rateLimits[u], dateNow) THEN 0 ELSE rateLimits[u]]
    /\ rateLimits' # rateLimits
    /\ UNCHANGED <<msNow, lastPassed, verdict>>
    /\ UNCHANGED <<payVars, xuiVars, cronVars, linkVars, traffic, serverTariffs, logged, proc>>

\* time passes: Date.now() advances
TimePasses ==
    /\ msNow < Len(Timeline)
    /\ msNow' = msNow + 1
    /\ UNCHANGED <<rateLimits, lastPassed, verdict>>
    /\ UNCHANGED <<payVars, xuiVars, cronVars, linkVars, traffic, serverTariffs, logged, proc>>

\* ------------------------------------------------------- bot.ts: shutdown

\* SIGINT or SIGTERM: bot.stop, stopCronJobs, stopPayments, closeDb and
\* process.exit(0), one after the other with no await. The timers are
\* cleared, and every callback that is suspended at an await ends there with
\* the process: its locals are gone; the store file, the panels' clients and
\* the gateway's ledger stay as they are
shutdown ==
    /\ proc = "running"
    /\ proc' = "exited"
    /\ pc' = [t \in Tasks |-> "idle"]
    /\ cur' = [t \in Tasks |-> 0]
    /\ queue' = [t \in Tasks |-> << >>]
    /\ uuid' = [t \in Tasks |-> 0]
    /\ expiresAt' = [t \in Tasks |-> 0]
    /\ net' = [t \in Tasks |-> "none"]
    /\ apiErrors' = [k \in PollTicks |-> {}]
    /\ UNCHANGED <<storeVars, invoked, addOk, rmOk>>
    /\ UNCHANGED <<xuiVars, cronVars, linkVars, limVars, traffic, serverTariffs, logged>>

\* --------------------------------------------------------- specifications
Init == PayInit /\ XuiInit /\ CronInit /\ LinkInit /\ BotInit

vars == <<payVars, xuiVars, cronVars, linkVars, botVars>>

Activation ==
    \/ \E u \in Principals, tf \in TariffIds : handleBuy(u, tf)
    \/ \E l \in Labels : Deposit(l)
    \/ \E t \in ActTasks : PanelAddClient(t)
    \/ \E t \in ActTasks : AddClientEnds(t)
    \/ \E t \in ActTasks : Notified(t)
    \/ \E t \in ActTasks : GatewayReply(t)

Next ==
    \/ Activation
    \/ Age
    \/ pollPendingPayments("poll")
    \/ PollLoop("poll")
    \/ \E l \in Labels : handleCheckPayment(l)
    \/ CheckAnswered
    \/ StaleSweep

Spec == Init /\ [][Next]_vars

\* activation by the manual check, the expiry sweep and the block path
GrantNext ==
    \/ Activation
    \/ \E l \in Labels : handleCheckPayment(l)
    \/ CheckAnswered
    \/ Tick
    \/ ExpirySweep
    \/ \E u \in Principals : handleBlock(u)
    \/ \E t \in RmTasks : RemoveLoop(t)
    \/ \E t \in RmTasks : PanelDelClient(t)
    \/ \E t \in RmTasks : RemoveClientEnds(t)
    \/ ExpiryNotified

SpecGrant == Init /\ [][GrantNext]_vars

\* the reconciler alone, with time passing
PollNext ==
    \/ Activation
    \/ Tick
    \/ pollPendingPayments("poll")
    \/ PollLoop("poll")

SpecPoll == Init /\ [][PollNext]_vars

\* the reconciler with its interval timer: up to two ticks in flight
TicksNext ==
    \/ Activation
    \/ \E k \in PollTicks : pollPendingPayments(k)
    \/ \E k \in PollTicks : PollLoop(k)

SpecTicks == Init /\ [][TicksNext]_vars

\* the timers and their callbacks. A timer keeps firing while the process
\* runs, and a tick in flight ends (every await of a tick settles)
SchedNext ==
    \/ \E t \in Periodic : TimerFires(t)
    \/ \E t \in AsyncTasks : RowThrows(t)
    \/ \E t \in AsyncTasks : TickThrows(t)
    \/ \E t \in AsyncTasks : TickReturns(t)

SpecSched ==
    /\ Init /\ [][SchedNext]_vars
    /\ \A t \in Periodic : WF_vars(TimerFires(t))
    /\ \A t \in AsyncTasks : WF_vars(TickThrows(t) \/ TickReturns(t))

\* healthCheckAll and its probes
HealthNext ==
    \/ healthCheckAll
    \/ \E code \in UnknownCodes : healthCheckUnknown(code)
    \/ \E e \in HealthServers : ProbeFetchEnds(e)
    \/ \E e \in HealthServers : ProbeSleepEnds(e)
    \/ HealthTimePasses
    \/ HealthCheckAllReturns
    \/ HealthCheckAllDone

SpecHealth == Init /\ [][HealthNext]_vars

\* the health sweep: healthCheckAll, then the alerts
AlertNext ==
    \/ healthCheckAll
    \/ \E e \in HealthServers : ProbeFetchEnds(e)
    \/ \E e \in HealthServers : ProbeSleepEnds(e)
    \/ HealthTimePasses
    \/ HealthCheckAllReturns
    \/ HealthSweepReads
    \/ HealthSweepLoop
    \/ HealthNotifyEnds
    \/ HealthSweepReturns

SpecAlert == Init /\ [][AlertNext]_vars

\* calls through the session client
XuiNext ==
    \/ \E c \in Callers, s \in Servers : apiRequest(c, s)
    \/ \E c \in Callers : FetchFails(c)
    \/ \E c \in Callers : SleepEnds(c)
    \/ \E c \in Callers, r \in Responses : LoginResponds(c, r)
    \/ \E c \in Callers, r \in Responses : RequestResponds(c, r)
    \/ \E c \in Callers : CallEnds(c)

SpecXui == Init /\ [][XuiNext]_vars

\* the reconciler with a store whose writes may fail
StoreNext ==
    \/ Activation
    \/ pollPendingPayments("poll")
    \/ PollLoop("poll")
    \/ \E t \in ActTasks : CreateSubscriptionThrows(t)
    \/ \E t \in ActTasks : CompletePaymentThrows(t)

SpecStore == Init /\ [][StoreNext]_vars

\* the reconciler and the expiry sweep, with a store whose UPDATE of a
\* subscription may fail
ExpiryNext ==
    \/ Activation
    \/ pollPendingPayments("poll")
    \/ PollLoop("poll")
    \/ Tick
    \/ ExpirySweep
    \/ RemoveLoop("expiry")
    \/ PanelDelClient("expiry")
    \/ RemoveClientEnds("expiry")
    \/ DeactivateSubscriptionThrows
    \/ ExpiryNotified

SpecExpiry == Init /\ [][ExpiryNext]_vars

\* the configuration is loaded and links are built
LinkNext ==
    \/ parseServers
    \/ \E code \in Servers, u \in ClientUuids, l \in LinkLabels : buildVlessLink(code, u, l)

SpecLink == Init /\ [][LinkNext]_vars

\* getClientTraffic, called by one caller
UsageNext ==
    \/ \E s \in Servers, email \in Emails : getClientTraffic(s, email)
    \/ FetchFails("a")
    \/ SleepEnds("a")
    \/ \E r \in Responses : LoginResponds("a", r)
    \/ \E r \in Responses : RequestResponds("a", r)
    \/ \E obj \in Objs : GetClientTrafficEnds(obj)
    \/ GetClientTrafficDone

SpecUsage == Init /\ [][UsageNext]_vars

\* two users buy, are activated by the manual check, and are blocked
BlockNext ==
    \/ \E u \in TwoPrincipals : handleBuy(u, "month")
    \/ \E l \in Labels : Deposit(l)
    \/ \E l \in Labels : handleCheckPayment(l)
    \/ CheckAnswered
    \/ GatewayReply("check")
    \/ PanelAddClient("check")
    \/ AddClientEnds("check")
    \/ Notified("check")
    \/ \E u \in TwoPrincipals : handleBlock(u)
    \/ RemoveLoop("block")
    \/ PanelDelClient("block")
    \/ RemoveClientEnds("block")

SpecBlock == Init /\ [][BlockNext]_vars

\* the reconciler across restarts with a changed tariff table
DeployNext ==
    \/ Activation
    \/ pollPendingPayments("poll")
    \/ PollLoop("poll")
    \/ TariffNotFound("poll")
    \/ \E ids \in SUBSET TariffIds : Redeploy(ids \cup {"trial"})

SpecDeploy == Init /\ [][DeployNext]_vars

\* the poll, the manual check and the expiry sweep with notifications that fail
NotifyNext ==
    \/ Activation
    \/ pollPendingPayments("poll")
    \/ PollLoop("poll")
    \/ SendMessageThrows("poll")
    \/ Tick
    \/ ExpirySweep
    \/ RemoveLoop("expiry")
    \/ PanelDelClient("expiry")
    \/ RemoveClientEnds("expiry")
    \/ ExpiryNotified

SpecNotify == Init /\ [][NotifyNext]_vars

\* the poll and the expiry sweep until the process is told to stop
ShutdownNext ==
    \/ proc = "running" /\ Activation
    \/ proc = "running" /\ pollPendingPayments("poll")
    \/ proc = "running" /\ PollLoop("poll")
    \/ proc = "running" /\ Tick
    \/ proc = "running" /\ ExpirySweep
    \/ proc = "running" /\ RemoveLoop("expiry")
    \/ proc = "running" /\ PanelDelClient("expiry")
    \/ proc = "running" /\ RemoveClientEnds("expiry")
    \/ proc = "running" /\ ExpiryNotified
    \/ shutdown

SpecShutdown == Init /\ [][ShutdownNext]_vars

\* one caller of apiRequest; every fetch ends (its signal aborts it after
\* 15 s) and every sleep ends
CallStep(c) ==
    \/ FetchFails(c)
    \/ SleepEnds(c)
    \/ \E r \in Responses : LoginResponds(c, r)
    \/ \E r \in Responses : RequestResponds(c, r)

CallNext ==
    \/ \E s \in Servers : apiRequest("m", s)
    \/ CallStep("m")
    \/ CallEnds("m")

SpecCall == Init /\ [][CallNext]_vars /\ WF_vars(CallStep("m"))

\* the trial and a paid tariff: two handleBuy callbacks of a user, and the poll
TrialNext ==
    \/ \E t \in BuyTasks, u \in Principals : handleBuyTrial(t, u)
    \/ \E u \in Principals : handleBuy(u, "month")
    \/ \E l \in Labels : Deposit(l)
    \/ \E t \in BuyTasks \cup {"poll"} : PanelAddClient(t)
    \/ \E t \in BuyTasks \cup {"poll"} : AddClientEnds(t)
    \/ \E t \in BuyTasks \cup {"poll"} : Notified(t)
    \/ pollPendingPayments("poll")
    \/ PollLoop("poll")
    \/ GatewayReply("poll")

SpecTrial == Init /\ [][TrialNext]_vars

\* the updates of two users, the cleanup timer and the clock
LimitNext ==
    \/ \E u \in TwoPrincipals : isRateLimited(u)
    \/ cleanup
    \/ TimePasses

SpecLimit == Init /\ [][LimitNext]_vars

\* ------------------------------------------------------------------ claims

\* the Grants attributed to payment p, the activations invoked with it, and
\* whether activation i still awaits its addClient

grantsOf(p) == {g \in GrantIds : grants[g].payment = p}
activationsOf(p) == {i \in invoked : i.payment = p}
inFlight(i) == \E t \in ActTasks : pc[t] = "add" /\ uuid[t] = i.client_uuid

\* C1: with the poll and the manual check triggered concurrently on one paid
\* pending payment, the payment is activated once: at most one Grant is
\* attributed to it and at most one addClient call succeeds for it.
C1_ActivatedOnce ==
    \A p \in PayIds :
        /\ Cardinality(grantsOf(p)) <= 1
        /\ Cardinality({i \in activationsOf(p) : i.client_uuid \in addOk}) <= 1

\* C2: a payment that is completed, expired or refunded keeps its status in
\* every step; only a pending payment changes status.
C2_TerminalStatus ==
    [][\A p \in PayIds :
        payments[p].status # "pending" => payments'[p].status = payments[p].status]_vars

\* C3: a Grant exists, or a payment is completed, only for an activation
\* whose addClient call has returned successfully; while the call is in
\* flight, and after it failed, neither has happened for that activation.
C3_ProvisionFirst ==
    /\ \A g \in GrantIds : grants[g].client_uuid \in addOk
    /\ \A p \in PayIds : payments[p].status = "completed" =>
          \E i \in activationsOf(p) : i.client_uuid \in addOk
    /\ \A i \in invoked : i.client_uuid \notin addOk =>
          \A g \in GrantIds : grants[g].client_uuid # i.client_uuid

\* C3 witness: one activation has created its Grant and completed its
\* payment, and another activation's addClient has failed.
C3_Witness ==
    /\ \E g \in GrantIds : payments[grants[g].payment].status = "completed"
    /\ \E i \in invoked : i.client_uuid \notin addOk /\ ~inFlight(i)

\* C4: at the moment the reconciler starts an activation (issues addClient)
\* and at the moment it creates the Grant, the stored status of the payment
\* is pending.
C4_PendingWhenActivating ==
    [][/\ (pc["poll"] = "gw" /\ pc'["poll"] = "add")
            => payments[cur["poll"]].status = "pending"
       /\ (pc["poll"] = "add" /\ pc'["poll"] = "msg")
            => payments[cur["poll"]].status = "pending"]_vars

beingRemoved(g) ==
    pc["expiry"] = "rm" /\ cur["expiry"] = g /\ net["expiry"] = "applied"

\* C5 as stated: every active Grant has its client on the panel, no two
\* Grants share a client, and a deactivated Grant whose removal call
\* returned has no client on the panel.
C5_RemoteMatchesActive ==
    \A g \in GrantIds :
        /\ grants[g].is_active = 1 => grants[g].client_uuid \in remote
        /\ \A h \in GrantIds : h # g => grants[h].client_uuid # grants[g].client_uuid
        /\ (grants[g].is_active = 0 /\ grants[g].client_uuid \in rmOk)
              => grants[g].client_uuid \notin remote

\* C5 amended: as C5, except that an active Grant has no client on the panel
\* while the expiry sweep is between the panel's removal of the client and
\* the local deactivation of that Grant.
C5_RemoteMatchesActiveOutsideSweep ==
    \A g \in GrantIds :
        /\ (grants[g].is_active = 1 /\ ~beingRemoved(g)) => grants[g].client_uuid \in remote
        /\ \A h \in GrantIds : h # g => grants[h].client_uuid # grants[g].client_uuid
        /\ (grants[g].is_active = 0 /\ grants[g].client_uuid \in rmOk)
              => grants[g].client_uuid \notin remote

\* C5 witness: the expiry sweep has had one Grant's client removed and has
\* deactivated it, while the block path has deactivated another Grant whose
\* client is still on the panel, its removal in flight.
C5_Witness ==
    \E g, h \in GrantIds :
        /\ g # h /\ grants[g].is_active = 0 /\ grants[h].is_active = 0
        /\ grants[g].client_uuid \in rmOk /\ grants[g].client_uuid \notin remote
        /\ pc["expiry"] = "msg" /\ cur["expiry"] = g
        /\ pc["block"] = "rm" /\ cur["block"] = h /\ grants[h].client_uuid \in remote

\* the fields of call[c] a claim reads: `stage` is the fetchWithRetry the call
\* is in or ended in, `last` the last response it received
inLogin(k) == k.stage \in {"login1", "login2"}
relogins(k) == k.logins - (IF k.initial THEN 1 ELSE 0)
answered(k, stgs) == k.last.stage \in stgs
success(r) == r.status >= 200 /\ r.status <= 299 /\ r.flag

\* C6: once a login for a server has succeeded, its cookie stays cached, and
\* a call to that server begun afterwards that receives no 401 performs no
\* login.
C6_SessionReuse ==
    /\ \A s \in loggedIn : sessions[s] # 0
    /\ \A c \in Callers :
        (call[c].pc # "idle" /\ call[c].warm /\ ~call[c].first401) => call[c].logins = 0

\* C6 witness: a call begun after a successful login has returned a result
\* without a login.
C6_Witness ==
    \E c \in Callers :
        /\ call[c].pc = "done" /\ call[c].warm /\ ~call[c].first401
        /\ call[c].result.kind = "ok" /\ call[c].logins = 0

\* C7 as stated: a call whose first request received a 401 has, when it ends,
\* performed exactly one fresh login and exactly two requests; it succeeds
\* if the second response is a success and fails if it is rejected again.
C7_OneReloginOneRetry ==
    \A c \in Callers :
        LET k == call[c]
        IN (k.pc = "done" /\ k.first401) =>
              /\ relogins(k) = 1 /\ k.requests = 2
              /\ answered(k, {"req2"})
              /\ k.result.kind = "ok" <=> success(k.last)

\* C7 amended: after a 401 on the first request exactly one fresh login is
\* performed; when that login succeeds the request is issued exactly once
\* more and the call succeeds exactly if that second response is a success;
\* when that login fails the call fails with no second request; there is
\* never a third request or a second re-login.
C7_OneReloginThenRetry ==
    \A c \in Callers :
        LET k == call[c]
        IN /\ k.requests <= 2 /\ relogins(k) <= 1
           /\ k.first401 <=> relogins(k) = 1
           /\ (k.pc = "done" /\ k.first401) =>
                IF k.stage = "login2"
                THEN k.requests = 1 /\ k.result.kind # "ok"
                ELSE /\ k.requests = 2 /\ k.stage = "req2"
                     /\ answered(k, {"req2"}) => (k.result.kind = "ok" <=> success(k.last))
                     /\ ~answered(k, {"req2"}) => k.result.kind = "transport"

\* C7 witness: two calls ended after a 401 and a fresh login, one with the
\* second response a success, one with the second response a 401 again.
C7_Witness ==
    \E c, d \in Callers :
        /\ call[c].pc = "done" /\ call[c].first401 /\ call[c].result.kind = "ok"
        /\ call[c].requests = 2 /\ relogins(call[c]) = 1
        /\ call[d].pc = "done" /\ call[d].first401 /\ call[d].result.kind = "api"
        /\ call[d].last = [stage |-> "req2", status |-> 401, flag |-> FALSE]

terminalResponse(k) ==
    \/ answered(k, {"req1"}) /\ ~success(k.last) /\ k.last.status # 401
    \/ answered(k, {"req2"}) /\ ~success(k.last)

\* C8: once a request is answered with a non-success status other than a
\* first 401, or with success:false, the call has ended with an error: no
\* request and no login follows that response.
C8_TerminalError ==
    \A c \in Callers :
        LET k == call[c]
        IN terminalResponse(k) =>
              /\ k.pc = "done" /\ k.result.kind \in {"api", "failed"}
              /\ k.requests = (IF k.last.stage = "req1" THEN 1 ELSE 2)
              /\ relogins(k) = (IF k.last.stage = "req1" THEN 0 ELSE 1)

\* C8 witness: one call ended on a 500, another on a success:false envelope.
C8_Witness ==
    \E c, d \in Callers :
        /\ call[c].pc = "done" /\ call[c].result.kind = "api"
        /\ call[c].last = [stage |-> "req1", status |-> 500, flag |-> TRUE]
        /\ call[d].pc = "done" /\ call[d].result.kind = "failed"
        /\ call[d].last = [stage |-> "req1", status |-> 200, flag |-> FALSE]

\* C9: one exchange is attempted at most 3 times; the delays slept are 1 s,
\* 2 s, 4 s in this order; when all attempts fail the error thrown is the
\* last attempt's, after the three delays; a response ends the retrying.
C9_Backoff ==
    \A c \in Callers :
        LET k == call[c]
        IN /\ Len(k.errs) <= 3
           /\ \A i \in 1..Len(k.slept) : k.slept[i] = <<1000, 2000, 4000>>[i]
           /\ k.result.kind = "transport" =>
                /\ Len(k.errs) = 3 /\ k.result.error = k.errs[3]
                /\ k.slept = <<1000, 2000, 4000>>
           /\ (k.last.stage = k.stage /\ k.stage # "none") => k.pc = "done"

\* C10: a login that fails (a response that is not ok or has no cookie, or
\* retries exhausted) ends the call with an error, with no login and no
\* request after it, and the step in which it fails leaves the session
\* cache as it is.
C10_FailedLoginIsHard ==
    /\ [](\A c \in Callers :
            LET k == call[c]
            IN ((answered(k, {"login1", "login2"}) /\ ~success(k.last))
                  \/ (k.result.kind = "transport" /\ inLogin(k)))
               => /\ k.pc = "done" /\ inLogin(k)
                  /\ k.result.kind \in {"login", "nocookie", "transport"}
                  /\ k.requests = (IF k.first401 THEN 1 ELSE 0)
                  /\ k.logins = (IF k.initial THEN 1 ELSE 0) + (IF k.first401 THEN 1 ELSE 0))
    /\ [][\A c \in Callers :
            (call[c].pc # "done" /\ call'[c].pc = "done" /\ inLogin(call[c]))
               => sessions' = sessions]_vars

\* C10 witness: a re-login after a 401 was itself answered 401 and the call
\* has failed, the cache still holding a cookie; another call's first login
\* ran out of retries.
C10_Witness ==
    \E c, d \in Callers :
        /\ call[c].pc = "done" /\ call[c].result.kind = "login"
        /\ call[c].last = [stage |-> "login2", status |-> 401, flag |-> FALSE]
        /\ sessions[call[c].srv] # 0
        /\ call[d].pc = "done" /\ call[d].result.kind = "transport"
        /\ call[d].stage = "login1" /\ call[d].requests = 0

\* a step in which the login of call c completes successfully
loginCompletes(c) ==
    /\ call[c].pc = "fetch" /\ inLogin(call[c])
    /\ call'[c].stage \in {"req1", "req2"}

\* C11: under any interleaving of calls, the session cache changes only in
\* a step in which a login completes successfully; that step sets the entry
\* of the login's endpoint to the cookie the login returned, whatever the
\* entry held (last writer wins, redundant logins included), and leaves the
\* entries of the other endpoints as they are; an entry never becomes empty.
C11_LastWriterWins ==
    /\ [][/\ \A c \in Callers : loginCompletes(c) =>
                  /\ sessions'[call[c].srv] = call'[c].cookie
                  /\ call'[c].cookie = nextCookie
                  /\ \A s \in Servers \ {call[c].srv} : sessions'[s] = sessions[s]
          /\ (sessions' # sessions) => \E c \in Callers : loginCompletes(c)
          /\ \A s \in Servers : sessions[s] # 0 => sessions'[s] # 0]_vars
    /\ [](\A s \in Servers : sessions[s] \in 0..(nextCookie - 1))

\* C11 witness: two calls to one endpoint both logged in (redundantly); the
\* cache holds the cookie of the login that completed last, and the entry of
\* the other endpoint, set before, is still there.
C11_Witness ==
    \E c, d \in Callers :
        /\ c # d /\ call[c].srv = call[d].srv
        /\ call[c].initial /\ call[d].initial
        /\ call[c].cookie # 0 /\ call[c].cookie < call[d].cookie
        /\ sessions[call[d].srv] = call[d].cookie
        /\ \E s \in Servers \ {call[d].srv} : sessions[s] # 0

\* the instant a stored expires_at text denotes (Date.parse), the Grants
\* that are active with that instant not after the current one, and
\* membership in a task's snapshot
instantOf(text) == text[1] * MinutesPerDay + text[3]
pastExpiry(g) == grants[g].is_active = 1 /\ instantOf(grants[g].expires_at) <= now
inSeq(x, q) == \E i \in 1..Len(q) : q[i] = x
expiryTickStarts == pc["expiry"] = "idle" /\ pc'["expiry"] = "loop"
blockStarts == pc["block"] = "idle" /\ pc'["block"] = "loop"

\* C12: a tick of the expiry sweep takes up every Grant that is active with
\* its expiry in the past; for each Grant it takes up it attempts the remote
\* removal, then sets is_active to 0, then notifies: the sweep deactivates a
\* Grant only in the step that ends its removeClient call, and when it
\* notifies, the Grant is deactivated and is not among the principal's
\* active subscriptions.
C12_ExpiredAreSwept ==
    /\ [][expiryTickStarts =>
            \A g \in GrantIds : pastExpiry(g) => inSeq(g, queue'["expiry"])]_vars
    /\ [][\A g \in GrantIds :
            (grants[g].is_active = 1 /\ grants'[g].is_active = 0 /\ ~blockStarts)
               => /\ pc["expiry"] = "rm" /\ cur["expiry"] = g
                  /\ pc'["expiry"] = "msg"]_vars
    /\ [](pc["expiry"] = "msg" =>
            /\ grants[cur["expiry"]].is_active = 0
            /\ cur["expiry"] \notin getActiveSubscriptions(grants[cur["expiry"]].telegram_id))

\* a step in which the removeClient call of task t ends by throwing
removeClientThrows(t) == pc[t] = "rm" /\ pc'[t] # "rm" /\ uuid[t] \notin rmOk'

\* C13: when the removeClient call for a Grant throws, in the expiry sweep
\* or in the block path, the Grant is deactivated locally when that step is
\* done and the pass goes on (to the notice in the sweep, to the next row in
\* the block path); removal by a sweep never leaves the Grant active.
C13_DeactivatedDespiteFailure ==
    [][\A t \in RmTasks : removeClientThrows(t) =>
          /\ grants'[cur[t]].is_active = 0
          /\ pc'[t] = (IF t = "expiry" THEN "msg" ELSE "loop")
          /\ payments' = payments /\ remote' = remote]_vars

\* C13 witness: the removal of one Grant's client threw in the expiry sweep
\* and the removal of another's threw in the block path; both clients are
\* still on the panel and both Grants are deactivated.
C13_Witness ==
    \E g, h \in GrantIds :
        /\ g # h
        /\ pc["expiry"] = "msg" /\ cur["expiry"] = g
        /\ pc["block"] = "loop" /\ cur["block"] = h
        /\ \A x \in {g, h} :
              /\ grants[x].is_active = 0
              /\ grants[x].client_uuid \notin rmOk
              /\ grants[x].client_uuid \in remote

\* a step in which an activation creates its Grant
grantCreated(t) == pc[t] = "add" /\ pc'[t] = "msg"

\* C14: a Grant whose is_active is 0 keeps is_active 0 in every step; the
\* step in which an activation creates its Grant adds one new row, active,
\* with the activation's fresh client uuid, and leaves every existing row
\* as it is; no other step makes a row active or adds one.
C14_DeactivationTerminal ==
    [][/\ \A g \in GrantIds : grants[g].is_active = 0 => grants'[g].is_active = 0
       /\ \A t \in ActTasks : grantCreated(t) =>
             /\ Len(grants') = Len(grants) + 1
             /\ \A g \in GrantIds : grants'[g] = grants[g]
             /\ grants'[Len(grants')].is_active = 1
             /\ grants'[Len(grants')].client_uuid = uuid[t]
             /\ \A g \in GrantIds : grants[g].client_uuid # uuid[t]
       /\ (\A t \in ActTasks : ~grantCreated(t)) => Len(grants') = Len(grants)]_vars

\* C14 witness: a principal has a deactivated Grant, and a Grant created
\* by a later activation is active beside it.
C14_Witness ==
    \E g, h \in GrantIds :
        /\ g < h /\ grants[g].telegram_id = grants[h].telegram_id
        /\ grants[g].is_active = 0 /\ grants[h].is_active = 1
        /\ grants[h].client_uuid \in addOk
        /\ pc["check"] = "idle" /\ pc["expiry"] = "idle" /\ pc["block"] = "idle"

\* a step in which the stale-payment sweep changes the table, and the
\* payments that are pending and were created 24 hours ago or earlier
staleSweepActs == \E p \in PayIds : payments[p].status # "expired" /\ payments'[p].status = "expired"
stale(p) == payments[p].status = "pending" /\ p <= oldUpTo

\* C15: a run of expireOldPayments sets every payment that is pending and
\* older than 24 hours to expired, changes nothing but the status of those
\* rows, leaves the Grants and the panel alone, and returns the number of
\* rows it changed; run again at once it changes nothing and returns 0.
C15_StaleSweep ==
    [][staleSweepActs =>
          /\ \A p \in PayIds : stale(p) =>
                payments'[p] = [payments[p] EXCEPT !.status = "expired"]
          /\ \A p \in PayIds : ~stale(p) => payments'[p] = payments[p]
          /\ Len(payments') = Len(payments)
          /\ grants' = grants /\ remote' = remote
          /\ changes = Cardinality({p \in PayIds : payments'[p] # payments[p]})
          /\ changes > 0
          /\ changes' = 0 /\ expireOldPayments' = payments']_vars

\* C15 witness: the sweep has expired an old pending payment, and a pending
\* payment younger than 24 hours is as it was.
C15_Witness ==
    /\ Len(payments) = 2 /\ oldUpTo = 1
    /\ payments[1].status = "expired" /\ payments[2].status = "pending"

\* C16: getExpiredSubscriptions returns exactly the Grants that are active
\* and whose expiry instant is not after the current instant: for every
\* Grant created by activation, the comparison of the stored expires_at
\* text with the text of datetime('now') gives the result of the
\* comparison of the two instants.
C16_ExpiredByInstant ==
    /\ \A g \in GrantIds :
          textLE(grants[g].expires_at, datetime(now)) <=> instantOf(grants[g].expires_at) <= now
    /\ \A g \in GrantIds : inSeq(g, getExpiredSubscriptions) <=> pastExpiry(g)

\* steps of a reconciliation tick: it starts an activation for the payment
\* it has taken from its snapshot; it takes the next payment
pollActivates == pc["poll"] = "gw" /\ pc'["poll"] = "add"
pollTakes == pc["poll"] = "loop" /\ pc'["poll"] = "gw"
grantsOfPrincipal(u) == {g \in GrantIds : grants[g].telegram_id = u}

ticksInFlight == {k \in PollTicks : pc[k] # "idle"}
processing(k) == IF pc[k] \in {"gw", "add", "msg"} THEN cur[k] ELSE 0

\* C18: no two ticks of one periodic task are in flight at once, and no
\* payment is being processed by two ticks of the poll at once.
C18_NoOverlap ==
    /\ Cardinality(ticksInFlight) <= 1
    /\ \A j, k \in PollTicks :
          (j # k /\ processing(j) # 0) => processing(j) # processing(k)

entries(v) == {e \in HealthServers : results[e] = v}
slowestProbe == HealthRetries * ProbeTimeout + backoffDelay(0) \div 1000
timedOut(e) == probe[e].attempt = 1 /\ probe[e].outcome.after = ProbeTimeout
                 /\ probe[e].outcome.status = 0

\* the map has one entry per endpoint, each the result of that endpoint's
\* own probe, and every probe took its own time only
ownResults ==
    \A e \in HealthServers :
        /\ results[e] \in {"true", "false"} /\ results[e] = probe[e].result
        /\ probe[e].doneAt = probe[e].spent
        /\ probe[e].doneAt <= returnedAt

\* C20 as stated: when healthCheckAll returns, the map has exactly one entry
\* per endpoint, each the endpoint's own probe result, no probe was delayed
\* by another, and the call took about 15 s at most (less than two
\* timeouts), not the sum over the endpoints.
C20_BoundedByOneTimeout ==
    hcAll = "returned" => (ownResults /\ returnedAt < 2 * ProbeTimeout)

\* C20 amended: as C20, with the bound of the slowest single probe being
\* that of its two attempts: 15 s, 1 s of backoff, 15 s; the call returns at
\* the moment its slowest probe returns.
C20_BoundedBySlowestProbe ==
    /\ hcAll = "returned" =>
          /\ ownResults
          /\ returnedAt <= slowestProbe
          /\ \E e \in HealthServers : probe[e].doneAt = returnedAt
    /\ \A e \in HealthServers :
          /\ probe[e].pc = "done" => probe[e].doneAt = probe[e].spent
          /\ probe[e].pc # "idle" => hcAll # "idle"
          /\ (hcAll = "running" /\ hclock > 0) => probe[e].pc # "idle"

\* C20 witness: of three endpoints one ran into the timeout in both attempts
\* and two answered 200: the map has two entries true and one false, and
\* the call returned after 31 s.
C20_Witness ==
    /\ hcAll = "returned"
    /\ Cardinality(entries("true")) = 2 /\ Cardinality(entries("false")) = 1
    /\ \A e \in entries("false") : timedOut(e) /\ probe[e].doneAt = 31
    /\ \A e \in entries("true") : probe[e].outcome.status = 200 /\ probe[e].doneAt = 1
    /\ returnedAt = 31

\* what a parser of the link v.link finds, against the endpoint and the label
\* the link was built from
recovers(v) ==
    LET url == parseURL(v.link)
        q == searchParams(url.search)
    IN /\ url.valid
       /\ url.hostname = v.srv.serverIp
       /\ url.port = v.srv.serverPort
       /\ get(q, <<"p", "b", "k">>) = v.srv.publicKey
       /\ get(q, <<"s", "i", "d">>) = v.srv.shortId
       /\ get(q, <<"s", "n", "i">>) = v.srv.sni
       /\ decodeURIComponent(url.hash) = v.label

\* C21: buildVlessLink is a pure function: the link it returns is the one
\* determined by the endpoint, the client uuid and the label, the call leaves
\* the session cache and the store as they are, and parsing the link as a
\* URI recovers the endpoint's address, port, public key, short id and
\* server name and the caller's label.
C21_LinkRoundTrip ==
    /\ [][(\E code \in Servers, u \in ClientUuids, l \in LinkLabels : buildVlessLink(code, u, l))
            => UNCHANGED <<payVars, xuiVars, servers>>]_vars
    /\ [](vless.state = "returned" =>
            /\ vless.link = vlessLinkOf(vless.srv, vless.uuid, vless.label)
            /\ recovers(vless))

\* the remote clients of payment p that no Grant records: their addClient
\* call returned and no subscription row has their uuid
orphansOf(p) ==
    {i \in activationsOf(p) :
        /\ i.client_uuid \in addOk
        /\ \A g \in GrantIds : grants[g].client_uuid # i.client_uuid}

\* C22: when addClient succeeds and the store write after it fails, the
\* payment is not activated again on a later tick, so at most one orphaned
\* remote client (one no subscription row records) ever exists per payment.
C22_OneOrphanPerPayment ==
    \A p \in PayIds : Cardinality(orphansOf(p)) <= 1

\* the activations that failed: their addClient call threw
failedActivations ==
    {i \in invoked : i.client_uuid \notin addOk /\ ~inFlight(i)}

\* C23: every activation whose addClient throws, on the poll path or on the
\* manual check path, is reported to the operator: a message about its
\* payment has been delivered to the operator's chat.
C23_FailureReported ==
    \A i \in failedActivations :
        \E m \in operator : m.type = "activation_failed" /\ m.payment = i.payment

\* call c has ended in the login that followed a 401: that login threw. Its
\* local `cookie` is still the credential the 401 rejected
reloginFailed(c) ==
    call[c].pc = "done" /\ call[c].stage = "login2" /\ call[c].first401

\* C24: after a call that received a 401, the session cache does not hold
\* the rejected credential any more, also when the login that follows the
\* 401 fails.
C24_RejectedDiscarded ==
    \A c \in Callers :
        reloginFailed(c) => sessions[call[c].srv] # call[c].cookie

\* the gateway query of tick k raises an error in this step
gatewayFails(k) == pc[k] = "gw" /\ apiErrors'[k] # apiErrors[k]

\* C25: a gateway query that fails for one payment does not abort the batch
\* of a poll tick: the failure is logged, the payment stays as it is and no
\* Grant is created, the tick goes on with the rest of its snapshot, every
\* payment of the snapshot is queried before the tick ends, and a payment
\* the gateway confirms is activated.
C25_BatchGoesOn ==
    /\ [][\A k \in PollTicks : gatewayFails(k) =>
            /\ cur[k] \in apiErrors'[k]
            /\ UNCHANGED <<payments, grants, remote, invoked>>
            /\ pc'[k] = "loop" /\ queue'[k] = queue[k]]_vars
    /\ [][\A k \in PollTicks : pc[k] # "idle" /\ pc'[k] = "idle" =>
            pc[k] = "loop" /\ queue[k] = << >>]_vars
    /\ [][\A k \in PollTicks : pc[k] = "loop" /\ pc'[k] # "loop" /\ queue[k] # << >> =>
            pc'[k] = "gw" /\ cur'[k] = Head(queue[k]) /\ queue'[k] = Tail(queue[k])]_vars
    /\ [][\A k \in PollTicks :
            /\ pc[k] = "gw" /\ pc'[k] # "gw" /\ ~gatewayFails(k)
            /\ payments[cur[k]].invoice_id \in paid
            => /\ pc'[k] = "add"
               /\ \E i \in invoked' \ invoked : i.payment = cur[k]]_vars

\* the query of payment 1 failed in the tick in flight: the payment is
\* pending and has no Grant; the tick went on and has activated payment 2
C25_Witness ==
    /\ Len(payments) = 2
    /\ apiErrors["poll"] = {1}
    /\ payments[1].status = "pending" /\ grantsOf(1) = {}
    /\ cur["poll"] = 2 /\ pc["poll"] = "msg"
    /\ payments[2].status = "completed" /\ grantsOf(2) # {}

\* C26: in the expiry sweep and in the payment poll an error in the
\* processing of one row never keeps the remaining rows of the tick from
\* being processed: a tick ends only when every row of its snapshot has been
\* visited.
C26_RowsAllProcessed ==
    [][\A t \in PollTicks \cup {"expiry"} :
          pc[t] # "idle" /\ pc'[t] = "idle" => queue[t] = << >>]_vars

\* tick k issues the gateway query of a payment / starts its activation
queryIssued(k) == pc[k] = "loop" /\ pc'[k] = "gw"
activationIssued(k) == pc[k] = "gw" /\ pc'[k] = "add"

\* C27: a payment that is completed or expired is never polled again: the
\* poll issues a gateway query or an activation only for a payment whose
\* stored status is pending at that moment, also when the payment left
\* pending after the tick had read its list.
C27_TerminalNotPolled ==
    [][\A k \in PollTicks :
          /\ queryIssued(k) => payments[cur'[k]].status = "pending"
          /\ activationIssued(k) => payments[cur[k]].status = "pending"]_vars

\* C28: the creation of the Grant and the completion of the payment are
\* atomic: in no state, whatever fails, does the Grant of a payment exist
\* while the payment is pending, nor is a payment completed while it has no
\* Grant.
C28_GrantAndCompletionAtomic ==
    \A p \in PayIds :
        /\ grantsOf(p) # {} => payments[p].status # "pending"
        /\ payments[p].status = "completed" => grantsOf(p) # {}

\* the healthCheck call of endpoint e ended after a network failure: the
\* last of its attempts was rejected or ran into the timeout
networkFailure(e) ==
    probe[e].outcome.status = 0 /\ probe[e].attempt = HealthRetries - 1

\* C29: healthCheck returns a boolean and propagates no error: false after a
\* network failure that outlasted its retries, for an endpoint that is not
\* configured, and for a response that is neither 2xx nor 302; true for a
\* 2xx or 302 response.
C29_HealthCheckIsBoolean ==
    /\ \A e \in HealthServers : probe[e].pc = "done" =>
          /\ probe[e].result \in {"true", "false"}
          /\ probe[e].result = "true" <=>
                (probe[e].outcome.status \in 200..299 \cup {302})
          /\ probe[e].result = "false" <=>
                \/ networkFailure(e)
                \/ /\ probe[e].outcome.status # 0
                   /\ probe[e].outcome.status \notin 200..299 \cup {302}
    /\ direct.state = "returned" =>
          direct.code \notin HealthServers /\ direct.result = "false"

\* C29 witness: one endpoint answered 302 and is up, one answered 500 and
\* is down, one failed in both attempts and is down, and healthCheck of an
\* unknown code returned false
C29_Witness ==
    /\ hcAll = "returned"
    /\ \E e \in HealthServers : probe[e].outcome.status = 302 /\ probe[e].result = "true"
    /\ \E e \in HealthServers : probe[e].outcome.status = 500 /\ probe[e].result = "false"
    /\ \E e \in HealthServers : networkFailure(e) /\ probe[e].result = "false"
    /\ direct.state = "returned" /\ direct.result = "false"

\* the alert rows the tick in flight has created for endpoint e
newAlerts(e) ==
    Cardinality({i \in (sweep.before + 1)..Len(alerts) :
                    alerts[i].type = "server_down" /\ alerts[i].code = e})

\* C30: in a tick of the health sweep every endpoint reported down gets
\* exactly one alert row and one attempt to notify the operator, every
\* endpoint reported up gets neither, and a notification that fails keeps
\* neither the alert row of its endpoint nor the handling of the endpoints
\* after it from happening.
C30_OneAlertPerDownEndpoint ==
    /\ [](sweep.pc = "end" =>
            \A e \in HealthServers :
                /\ results[e] = "false" => newAlerts(e) = 1 /\ sweep.attempted[e] = 1
                /\ results[e] = "true" => newAlerts(e) = 0 /\ sweep.attempted[e] = 0)
    /\ [](sweep.pc # "idle" =>
            \A e \in HealthServers :
                /\ newAlerts(e) = sweep.alerted[e]
                /\ sweep.attempted[e] = sweep.alerted[e]
                /\ sweep.alerted[e] <= 1)
    /\ [](\A m \in operator : \E i \in 1..Len(alerts) : alerts[i].code = m.code)
    /\ [][sweep.pc = "notify" /\ sweep'.pc # "notify" =>
            /\ sweep'.pc = "loop" /\ sweep'.queue = sweep.queue
            /\ alerts' = alerts]_vars

\* C30 witness: of three endpoints the first two are down and the third is
\* up; the notification of the first failed, that of the second was
\* delivered; the tick has ended with one alert row for each of the two
C30_Witness ==
    /\ sweep.pc = "end"
    /\ results["de"] = "false" /\ results["nl"] = "false" /\ results["ru"] = "true"
    /\ [type |-> "server_down", code |-> "de"] \notin operator
    /\ [type |-> "server_down", code |-> "nl"] \in operator
    /\ Len(alerts) = 2 /\ alerts[1].code = "de" /\ alerts[2].code = "nl"
    /\ sweep.attempted["de"] = 1 /\ sweep.attempted["ru"] = 0

\* C31: getClientTraffic returns zero usage when the panel has no record of
\* the client, a total equal to up + down when it has one, and never an
\* error: every call that has ended has ended with a usage
C31_UsageNeverAnError ==
    traffic.pc = "done" =>
        /\ traffic.result.kind = "usage"
        /\ traffic.obj.null =>
              traffic.result = [kind |-> "usage", up |-> 0, down |-> 0, total |-> 0]
        /\ ~traffic.obj.null =>
              traffic.result.total = traffic.result.up + traffic.result.down

\* the part of C31 that holds: of a call that apiRequest resolved
C31_UsageOfReply ==
    traffic.pc = "done" /\ traffic.result.kind = "usage" =>
        /\ traffic.obj.null =>
              traffic.result = [kind |-> "usage", up |-> 0, down |-> 0, total |-> 0]
        /\ ~traffic.obj.null =>
              /\ traffic.result.total = traffic.result.up + traffic.result.down
              /\ traffic.result.up >= 0 /\ traffic.result.down >= 0

\* the rows of a list
rowsOf(q) == {q[i] : i \in 1..Len(q)}

\* C32: deactivateAllUserSubscriptions returns exactly the subscriptions of
\* the user that were active before the call, each once; after it no
\* subscription of the user is active (a second call at once would select
\* nothing); the rows of every other user are as they were, and the user's
\* own rows differ in is_active only
C32_DeactivateAllOfOneUser ==
    [][pc["block"] = "idle" /\ pc'["block"] = "loop" =>
        \E u \in TwoPrincipals :
            /\ rowsOf(queue'["block"]) =
                  {g \in GrantIds : grants[g].telegram_id = u /\ grants[g].is_active = 1}
            /\ Len(queue'["block"]) = Cardinality(rowsOf(queue'["block"]))
            /\ DOMAIN grants' = DOMAIN grants
            /\ {g \in DOMAIN grants' :
                    grants'[g].telegram_id = u /\ grants'[g].is_active = 1} = {}
            /\ \A g \in GrantIds :
                  IF grants[g].telegram_id = u
                  THEN grants'[g] = [grants[g] EXCEPT !.is_active = 0]
                  ELSE grants'[g] = grants[g]]_vars

\* a user with an active subscription has been blocked while the other
\* user has an active subscription too
C32_Witness ==
    /\ pc["block"] = "loop" /\ queue["block"] # << >>
    /\ \E g \in GrantIds : grants[g].is_active = 1
    /\ \E g \in GrantIds : grants[g].is_active = 0

\* activateSubscription has logged that the tariff of payment p was not found
notFound(p) == [msg |-> "Tariff not found", payment |-> p] \in logged

\* C33: when activateSubscription finds no tariff, no panel call is made,
\* no subscription is created and the payment is not completed, and no
\* later poll tick queries the gateway for that payment again
C33_NotFoundNotRetried ==
    [][/\ logged' # logged =>
            /\ UNCHANGED <<payments, grants, remote, nextUuid>>
            /\ \A t \in Tasks : net'[t] = "none"
       /\ \A k \in PollTicks :
            pc[k] # "gw" /\ pc'[k] = "gw" => ~notFound(cur'[k])]_vars

\* the part of C33 that holds: the step that finds no tariff writes nothing
C33_NotFoundWritesNothing ==
    [][logged' # logged =>
            /\ UNCHANGED <<payments, grants, remote, nextUuid>>
            /\ \A t \in Tasks : net'[t] = "none"]_vars

\* the error records a caller writes for an error of activateSubscription
callerErrors == {"Polling check failed", "Bot error"}

\* C34: the step in which a notification ends, delivered or not, leaves
\* the payments and the subscriptions as they are, and no notification
\* that failed surfaces as an error of the activation or of the tick
C34_NotificationsSwallowed ==
    [][/\ (\E t \in ActTasks \cup {"expiry"} : pc[t] = "msg" /\ pc'[t] # "msg")
            => UNCHANGED <<payments, grants>>
       /\ \A e \in logged' : e.msg \notin callerErrors]_vars

\* the part of C34 that holds: a notification that ends changes no row
C34_NotificationKeepsStore ==
    [][(\E t \in ActTasks \cup {"expiry"} : pc[t] = "msg" /\ pc'[t] # "msg")
            => UNCHANGED <<payments, grants>>]_vars

\* task t has made its remote side effect and not yet its store write: the
\* panel has added the client and the subscription is not yet created, or
\* the panel has removed the client and the row is not yet deactivated
betweenRemoteAndStore(t) == pc[t] \in {"add", "rm"} /\ net[t] = "applied"

\* C35: shutdown awaits the ticks in flight: the process exits with no
\* tick between its remote side effect and its store write, and once it
\* has exited no tick starts and no row is written
C35_ShutdownAwaitsTicks ==
    [][/\ proc = "running" /\ proc' = "exited" =>
            \A t \in Tasks : ~betweenRemoteAndStore(t)
       /\ proc = "exited" => UNCHANGED <<pc, payments, grants>>]_vars

\* the part of C35 that holds: nothing runs after the exit
C35_NothingAfterExit ==
    [][proc = "exited" => UNCHANGED <<pc, payments, grants>>]_vars

trialsOf(u) == {g \in GrantIds : grants[g].telegram_id = u /\ grants[g].tariff_id = "trial"}

\* C37: a user has at most one trial subscription, whatever the order in
\* which the handleBuy callbacks for the trial run
C37_OneTrialPerPrincipal ==
    \A u \in TwoPrincipals : Cardinality(trialsOf(u)) <= 1

\* C38: the step in which addClient fails inside activateSubscription
\* writes nothing: no subscription is created, the payment keeps its status
\* (a pending payment stays pending) and no trial_used flag is set
C38_FailedAddClientWritesNothing ==
    [][\A t \in ActTasks :
          pc[t] = "add" /\ pc'[t] \notin {"add", "msg"} =>
              /\ grants' = grants
              /\ payments' = payments
              /\ payments'[cur[t]].status = payments[cur[t]].status
              /\ users' = users]_vars

\* addClient has failed for a trial and for a paid payment: both payments
\* are pending, the user's trial is not used up and nobody is mid-call
C38_Witness ==
    /\ \A t \in Tasks : pc[t] = "idle"
    /\ \E i, j \in invoked :
          /\ i.client_uuid \notin addOk /\ j.client_uuid \notin addOk
          /\ payments[i.payment].tariff_id = "trial"
          /\ payments[j.payment].tariff_id = "month"
          /\ payments[i.payment].status = "pending"
          /\ payments[j.payment].status = "pending"
          /\ users[payments[i.payment].telegram_id] = 0
    /\ grants = << >>

\* C39: an update of a user is dropped exactly when the user's last update
\* that was let through came less than 1000 ms before it, whether or not
\* the cleanup has deleted the user's entry since; an update that is let
\* through comes at least 1000 ms after the one before it; a dropped update
\* leaves the recorded times as they are
C39_RateLimit ==
    [][verdict' # verdict =>
        LET u == verdict'.user
            t == verdict'.at
        IN /\ verdict'.dropped <=> (lastPassed[u] # 0 /\ t - lastPassed[u] < 1000)
           /\ ~verdict'.dropped =>
                 /\ lastPassed[u] = 0 \/ t - lastPassed[u] >= 1000
                 /\ rateLimits' = [rateLimits EXCEPT ![u] = t]
           /\ verdict'.dropped => rateLimits' = rateLimits]_vars

\* an update of a user is dropped half a second after an update that was
\* let through although the cleanup had deleted the user's entry before it,
\* and the cleanup has since deleted the entry of the other user
C39_Witness ==
    /\ verdict.dropped /\ verdict.at = 62000
    /\ lastPassed[verdict.user] = 61500 /\ rateLimits[verdict.user] = 61500
    /\ \E v \in TwoPrincipals : lastPassed[v] = 1000 /\ rateLimits[v] = 0

====
